---- MODULE Spec2Model ----
(***************************************************************************)
(* A model of the card-scheduling core of charactercram: the scheduling    *)
(* algorithms of src/unnamed/part_001 (the six registered variants; the    *)
(* first four are also src/algorithms.js) and the host operations of       *)
(* ChineseCharacterApp in src/app.js (lines 1-1515) that drive them:       *)
(* init, nextCharacter, recordDifficulty, backfillSet, switchAlgorithm     *)
(* and the failed-card expiry timer.                                       *)
(*                                                                         *)
(* Conventions.                                                            *)
(*  - The catalog is its length `characters`; item i is catalog index i,   *)
(*    0-based as in the source.                                            *)
(*  - A JavaScript value that may be null or undefined is a sequence:      *)
(*    << >> for null/undefined and <<v>> for the value v.                  *)
(*  - Time is counted in units of 100 ms, so that the 365-day cap of the   *)
(*    Anki variant fits TLC's 32-bit integers; Ms(x) converts the source's *)
(*    millisecond literals.  Products of an interval and a decimal factor  *)
(*    are rounded down to that unit (the source computes in doubles).      *)
(*  - A ratio such as successRate is a pair <<num, den>>, compared by      *)
(*    cross-multiplication.                                                *)
(*  - Math.random() is a nondeterministic choice over the outcomes of the  *)
(*    expression it feeds.                                                 *)
(***************************************************************************)
EXTENDS Integers, Sequences, FiniteSets

VARIABLES
    characters,            \* app.characters: the catalog, as its length
    algType,               \* app.currentAlgorithmType: the name the instance was asked for
    algorithm,             \* app.algorithm: the registered variant the instance is of
    userProgress,          \* app.userProgress: index -> record or NoRecord
    recentFailedCards,     \* app.algorithmState.recentFailedCards
    sessionCorrectStreak,  \* app.algorithmState.sessionCorrectStreak
    todayReviews,          \* app.algorithmState.todayReviews
    sessionCardsSeen,      \* MasteryBasedAlgorithm.sessionCardsSeen of app.algorithm
    currentResult,         \* app.currentResult / currentChar / currentCharIndex
    timers,                \* pending setTimeout callbacks of recordDifficulty, in creation order
    now,                   \* Date.now()
    ticks,                 \* history variable: the number of clock advances so far
    phase,                 \* "boot": init() has not run; "select": a handler is about to
                           \* call nextCharacter(); "shown": the app waits for an event
    lastOp,                \* the handler that produced this state, with its inputs
    rated,                 \* history variable: the indices rated at least once
    probe                  \* inputs and result of a pure function under test

vars == << characters, algType, algorithm, userProgress, recentFailedCards, sessionCorrectStreak,
           todayReviews, sessionCardsSeen, currentResult, timers, now, ticks, phase,
           lastOp, rated, probe >>

--------------------------------------------------------------------------
(* Bounds of the model *)

\* Largest catalog of the specifications over all variants.
MaxChars == 2
\* Ratings recorded in one behaviour of the specification over all variants.
MaxRatings == 1
\* Clock advances in one behaviour.
MaxTicks == 1
\* Outcomes of a wide random draw that are followed (the lowest ones and the highest).
MaxDraw == 1
\* Selections of one Mastery instance after which no further rating is followed.
MaxSeen == 3
\* The catalog and the ratings of the Bucket Learning specification.
BucketChars == 7
BucketMaxRatings == 8
\* The catalog and the ratings of the Focused Sets specification.
ScoreChars == 6
ScoreMaxRatings == 1
\* The catalog, the ratings and the clock advances of the Improved SSR specification.
ImprovedChars == 3
ImprovedMaxRatings == 3
ImprovedMaxTicks == 1
\* The catalog and the ratings of the Focused Sets specification with a stored set.
SetsChars == 1
SetsMaxRatings == 4
\* The longest candidate list and the largest score (of either sign) given to
\* weightedRandomSelect on its own.
SelectMaxLen == 3
SelectMaxScore == 2
\* The most reviews of a record given to getMasteryLevel on its own.
LevelMaxReviews == 6
\* The catalog and the ratings of the Mastery Based specification.
MasteryChars == 5
MasteryMaxRatings == 3
\* The catalog and the ratings of the specification of the new-card gate.
GateChars == 6
GateMaxRatings == 3
\* The catalog, the ratings and the clock advances of the specification of the
\* failed-card timers.
ExpiryChars == 1
ExpiryMaxRatings == 2
ExpiryMaxTicks == 1
\* The catalog and the ratings of the specification of variant switches.
SwitchChars == 1
SwitchMaxRatings == 1
\* Denominators of the success rates given to the interval functions.
MaxProbeReviews == 4

--------------------------------------------------------------------------
(* Values *)

None == << >>

Some(v) == << v >>

IsSome(o) == o # << >>

Val(o) == o[1]

Min2(a, b) == IF a <= b THEN a ELSE b

Max2(a, b) == IF a >= b THEN a ELSE b

\* Milliseconds of the source in the model's time unit (100 ms).
Ms(x) == x \div 100

\* floor(x * num / den) without leaving 32 bits: x = q*den + r.
MulDiv(x, num, den) == (x \div den) * num + ((x % den) * num) \div den

Difficulties == 1..5

Indices == 0..(characters - 1)

AlgorithmTypes == {"improved", "anki", "aggressive", "mastery", "bucket", "score"}

NoRecord == [present |-> FALSE]

HasRecord(up, i) == i \in DOMAIN up /\ up[i].present

\* Object.entries(userProgress): the indices that have a record.
Recorded(up) == {i \in DOMAIN up : up[i].present}

--------------------------------------------------------------------------
(* BaseAlgorithm *)

DefaultMaxInterval == Ms(7 * 24 * 60 * 60 * 1000)

DefaultFailedCardTimeout == Ms(10 * 60 * 1000)

\* this.config.maxInterval of a variant ( << >> where the config has no such key).
MaxInterval(alg) ==
    IF alg \in {"improved", "anki", "aggressive"} THEN Some(DefaultMaxInterval) ELSE None

\* this.config.failedCardTimeout of a variant.
FailedCardTimeout(alg) ==
    CASE alg \in {"improved", "anki", "aggressive"} -> Some(DefaultFailedCardTimeout)
      [] alg = "mastery" -> Some(Ms(5 * 60 * 1000))
      [] OTHER -> None

MaxNewCardsPerDay(alg) ==
    CASE alg = "improved" -> 5
      [] alg = "anki" -> 10
      [] alg = "aggressive" -> 15

MaxFailedCardsBeforeNew(alg) == IF alg = "aggressive" THEN 5 ELSE 3

MinCorrectStreakForNew(alg) == IF alg = "aggressive" THEN 1 ELSE 2

\* A faulty config (C28): two good ratings master a card.
MasteryThresholdTwo(alg) == IF alg = "bucket" THEN Some(2) ELSE None

\* this.config.masteryThreshold: only BucketAlgorithm's config has it.
MasteryThreshold(alg) == IF alg = "bucket" THEN Some(3) ELSE None

BucketSize == 5

SetSize == 5

InitialScore == 0

AlgorithmName(alg) ==
    CASE alg = "improved" -> "Improved SSR"
      [] alg = "anki" -> "Classic Anki"
      [] alg = "aggressive" -> "Aggressive Learning"
      [] alg = "mastery" -> "Mastery Based"
      [] alg = "bucket" -> "Bucket Learning"
      [] alg = "score" -> "Focused Sets"

\* A faulty isCardFailed (C18): a rating of 2 does not count as failed.
IsCardFailedOnlyAgain(alg, difficulty) == difficulty <= 1

IsCardFailed(alg, difficulty) == difficulty <= 2

\* A faulty isCardCorrect (C12): BucketAlgorithm does not override it.
IsCardCorrectNotOverridden(alg, difficulty) == difficulty >= 3

\* A faulty isCardCorrect (C19): every rating counts as a success.
IsCardCorrectEveryRating(alg, difficulty) == TRUE

IsCardCorrect(alg, difficulty) ==
    IF alg = "bucket" THEN difficulty >= 4 ELSE difficulty >= 3

DayLength == Ms(24 * 60 * 60 * 1000)

\* new Date().setHours(0, 0, 0, 0): the clock's origin is a local midnight.
TodayStart(t) == (t \div DayLength) * DayLength

\* A faulty getNewCardsSeenToday (C23): no card counts as new today.
GetNewCardsSeenTodayNone(up, t) == 0

GetNewCardsSeenToday(up, t) ==
    Cardinality({i \in Recorded(up) : up[i].firstSeen >= TodayStart(t)})

--------------------------------------------------------------------------
(* Interval functions of the time-based variants *)

\* A faulty calculateInitialInterval (C13): a first rating of 1 gives a minute.
ImprovedCalculateInitialIntervalMinute(difficulty) ==
    CASE difficulty = 1 -> Ms(60 * 1000)
      [] difficulty = 2 -> Ms(2 * 60 * 1000)
      [] difficulty = 4 -> Ms(4 * 60 * 60 * 1000)
      [] difficulty = 5 -> Ms(24 * 60 * 60 * 1000)
      [] OTHER -> Ms(15 * 60 * 1000)

ImprovedCalculateInitialInterval(difficulty) ==
    CASE difficulty = 1 -> Ms(30 * 1000)
      [] difficulty = 2 -> Ms(2 * 60 * 1000)
      [] difficulty = 3 -> Ms(15 * 60 * 1000)
      [] difficulty = 4 -> Ms(4 * 60 * 60 * 1000)
      [] difficulty = 5 -> Ms(24 * 60 * 60 * 1000)
      [] OTHER -> Ms(15 * 60 * 1000)

\* rate < 0.5 and rate > 0.9 for rate = num/den.
RateBelowHalf(rate) == 10 * rate[1] < 5 * rate[2]

RateAbove(rate, tenths) == 10 * rate[1] > tenths * rate[2]

\* A faulty calculateNextInterval (C8): an interval over the cap wraps to the
\* minimum instead of being clamped to the cap.
ImprovedCalculateNextIntervalWrap(difficulty, currentInterval, successRate) ==
    LET base10 == CASE difficulty = 2 -> 11
                    [] difficulty = 3 -> 13
                    [] difficulty = 4 -> 20
                    [] difficulty = 5 -> 30
                    [] OTHER -> 15
        adj10 == IF RateBelowHalf(successRate) THEN 6
                 ELSE IF RateAbove(successRate, 9) THEN 13 ELSE 10
        product == MulDiv(currentInterval, base10 * adj10, 100)
    IN  IF difficulty = 1 \/ product > DefaultMaxInterval THEN Ms(30 * 1000)
        ELSE Max2(product, Ms(30 * 1000))

\* A faulty calculateNextInterval (C9): the product is capped but not raised to the
\* minimum.
ImprovedCalculateNextIntervalNoFloor(difficulty, currentInterval, successRate) ==
    LET base10 == CASE difficulty = 2 -> 11
                    [] difficulty = 3 -> 13
                    [] difficulty = 4 -> 20
                    [] difficulty = 5 -> 30
                    [] OTHER -> 15
        adj10 == IF RateBelowHalf(successRate) THEN 6
                 ELSE IF RateAbove(successRate, 9) THEN 13 ELSE 10
    IN  IF difficulty = 1 THEN Ms(30 * 1000)
        ELSE Min2(MulDiv(currentInterval, base10 * adj10, 100), DefaultMaxInterval)

\* ImprovedSSRAlgorithm.calculateNextInterval.  The factor is kept in hundredths:
\* base (tenths) times the success-rate adjustment (tenths).
ImprovedCalculateNextInterval(difficulty, currentInterval, successRate) ==
    LET base10 == CASE difficulty = 2 -> 11
                    [] difficulty = 3 -> 13
                    [] difficulty = 4 -> 20
                    [] difficulty = 5 -> 30
                    [] OTHER -> 15
        adj10 == IF RateBelowHalf(successRate) THEN 6
                 ELSE IF RateAbove(successRate, 9) THEN 13 ELSE 10
        newInterval == Min2(MulDiv(currentInterval, base10 * adj10, 100),
                            Val(MaxInterval("improved")))
    IN  IF difficulty = 1 THEN Ms(30 * 1000)
        ELSE Max2(newInterval, Ms(30 * 1000))

AnkiCalculateInitialInterval(difficulty) ==
    CASE difficulty = 1 -> Ms(1 * 60 * 1000)
      [] difficulty = 2 -> Ms(10 * 60 * 1000)
      [] difficulty = 3 -> Ms(1 * 24 * 60 * 60 * 1000)
      [] difficulty = 4 -> Ms(4 * 24 * 60 * 60 * 1000)
      [] difficulty = 5 -> Ms(7 * 24 * 60 * 60 * 1000)
      [] OTHER -> Ms(1 * 24 * 60 * 60 * 1000)

\* 365 * 24 * 60 * 60 * 1000 ms, written in the model's unit (the millisecond
\* literal itself exceeds 32 bits).
AnkiCap == 365 * 24 * 60 * 60 * 10

\* AnkiAlgorithm.calculateNextInterval: startingEase 2.5 (25 tenths) times 0.6, 0.8,
\* 1 or easyBonus 1.3 (tenths), intervalModifier 1.0.
AnkiCalculateNextInterval(difficulty, currentInterval, successRate) ==
    LET ease10 == 25
        mult10 == CASE difficulty = 2 -> 6
                    [] difficulty = 3 -> 8
                    [] difficulty = 4 -> 10
                    [] difficulty = 5 -> 13
                    [] OTHER -> 10
    IN  IF difficulty = 1 THEN Ms(1 * 60 * 1000)
        ELSE Min2(MulDiv(currentInterval, ease10 * mult10, 100), AnkiCap)

AggressiveCalculateInitialInterval(difficulty) ==
    CASE difficulty = 1 -> Ms(15 * 1000)
      [] difficulty = 2 -> Ms(1 * 60 * 1000)
      [] difficulty = 3 -> Ms(5 * 60 * 1000)
      [] difficulty = 4 -> Ms(30 * 60 * 1000)
      [] difficulty = 5 -> Ms(2 * 60 * 60 * 1000)
      [] OTHER -> Ms(5 * 60 * 1000)

\* AggressiveAlgorithm.calculateNextInterval: factor 1 + (d-1)*0.25 in hundredths,
\* times 1.2 or 0.8 in tenths.
AggressiveCalculateNextInterval(difficulty, currentInterval, successRate) ==
    LET factor100 == 100 + (difficulty - 1) * 25
        adjusted1000 == IF RateAbove(successRate, 8) THEN factor100 * 12
                        ELSE factor100 * 8
        newInterval == MulDiv(currentInterval, adjusted1000, 1000)
    IN  IF difficulty = 1 THEN Ms(15 * 1000)
        ELSE Min2(newInterval, Ms(3 * 24 * 60 * 60 * 1000))

\* algorithm.calculateInitialInterval of the active variant.
CalculateInitialInterval(alg, difficulty) ==
    CASE alg = "improved" -> ImprovedCalculateInitialInterval(difficulty)
      [] alg = "anki" -> AnkiCalculateInitialInterval(difficulty)
      [] alg = "aggressive" -> AggressiveCalculateInitialInterval(difficulty)
      [] OTHER -> Ms(1000)

\* algorithm.calculateNextInterval of the active variant.
CalculateNextInterval(alg, difficulty, currentInterval, successRate) ==
    CASE alg = "improved" ->
             ImprovedCalculateNextInterval(difficulty, currentInterval, successRate)
      [] alg = "anki" ->
             AnkiCalculateNextInterval(difficulty, currentInterval, successRate)
      [] alg = "aggressive" ->
             AggressiveCalculateNextInterval(difficulty, currentInterval, successRate)
      [] OTHER -> Ms(1000)

--------------------------------------------------------------------------
(* Selection results.  getNextCard returns null, or an object {char, index, flags};
   char is characters[index], undefined outside the catalog.  An absent flag is
   falsy.  threw marks a call that ended in an exception instead of returning. *)

MkResult(n, i, new, toBucket, toSet, check) ==
    [ isNull |-> FALSE, threw |-> FALSE, hasChar |-> i \in 0..(n - 1), index |-> i,
      isNew |-> new, addToBucket |-> toBucket, addToSet |-> toSet,
      isMasteryCheck |-> check ]

PlainResult(n, i) == MkResult(n, i, FALSE, FALSE, FALSE, FALSE)

NullResult ==
    [ isNull |-> TRUE, threw |-> FALSE, hasChar |-> FALSE, index |-> 0,
      isNew |-> FALSE, addToBucket |-> FALSE, addToSet |-> FALSE,
      isMasteryCheck |-> FALSE ]

\* The call dereferenced null or undefined (a TypeError).
ThrownResult == [NullResult EXCEPT !.threw = TRUE]

\* The element a stable descending sort puts first: no element of S is Gt it, and it
\* has the lowest index among those (the arrays are built in index order).
SortedFirst(S, Gt(_, _)) ==
    CHOOSE i \in S :
        /\ \A j \in S : ~Gt(j, i)
        /\ \A k \in S : (\A j \in S : ~Gt(j, k)) => i <= k

\* A faulty choice of the new card (C14): the last new card of the catalog.
LastIndex(S) == CHOOSE i \in S : \A j \in S : i >= j

LowestIndex(S) == CHOOSE i \in S : \A j \in S : i <= j

--------------------------------------------------------------------------
(* ImprovedSSRAlgorithm *)

\* calculateFailedCardPriority, times 600 (the units of time in a minute).
CalculateFailedCardPriority(p, t) ==
    Max2(1000 * 600 - (t - p.lastSeen)
           + (IF p.lastDifficulty = Some(1) THEN 100 * 600 ELSE 0),
         0)

\* calculateReviewPriority of p against that of q: both are scaled by
\* 36000 (units of time in an hour) * p.successRate[2] * q.successRate[2].
ReviewPriorityScaled(p, q, t) ==
    LET overdue == t - p.nextReview
        difficulty == IF IsSome(p.lastDifficulty) THEN Val(p.lastDifficulty) ELSE 3
        den == p.successRate[2]
        num == p.successRate[1]
    IN  (overdue + 36000 * 10 * (6 - difficulty)) * den * q.successRate[2]
          + 36000 * 20 * (den - num) * q.successRate[2]

\* A faulty getNextCard (C22): the due cards are looked at before the failed ones.
ImprovedGetNextCardDueFirst(n, up, failed, streak, t) ==
    LET idx == 0..(n - 1)
        due == {i \in idx : HasRecord(up, i) /\ t >= up[i].nextReview}
        failedCards == {i \in idx : HasRecord(up, i) /\ i \in failed}
    IN  IF due # {} THEN PlainResult(n, LowestIndex(due))
        ELSE IF failedCards # {} THEN PlainResult(n, LowestIndex(failedCards))
        ELSE PlainResult(n, 0)

\* A faulty getNextCard (C6): new cards are offered before the failed and due cards,
\* whatever the gate says.
ImprovedGetNextCardNewFirst(n, up, failed, streak, t) ==
    LET idx == 0..(n - 1)
        newCards == {i \in idx : ~HasRecord(up, i)}
        reviewed == {i \in idx : HasRecord(up, i)}
    IN  IF newCards # {} THEN PlainResult(n, LowestIndex(newCards))
        ELSE IF reviewed # {} THEN PlainResult(n, LowestIndex(reviewed))
        ELSE PlainResult(n, 0)

\* ImprovedSSRAlgorithm.getNextCard: failed is state.recentFailedCards, streak
\* state.sessionCorrectStreak, t Date.now().
ImprovedGetNextCard(n, up, failed, streak, t) ==
    LET idx == 0..(n - 1)
        newCards == {i \in idx : ~HasRecord(up, i)}
        failedCards == {i \in idx : HasRecord(up, i) /\ i \in failed}
        dueCards == {i \in idx : HasRecord(up, i) /\ i \notin failed
                                   /\ t >= up[i].nextReview}
        FailedGt(i, j) == CalculateFailedCardPriority(up[i], t)
                            > CalculateFailedCardPriority(up[j], t)
        DueGt(i, j) == ReviewPriorityScaled(up[i], up[j], t)
                         > ReviewPriorityScaled(up[j], up[i], t)
        shouldIntroduceNew ==
            /\ Cardinality(failed) < MaxFailedCardsBeforeNew("improved")
            /\ streak >= MinCorrectStreakForNew("improved")
        newCardsToday == GetNewCardsSeenToday(up, t)
        older == {i \in idx : HasRecord(up, i) /\ up[i].lastSeen < t}
        oldest == {i \in older : \A j \in older : up[i].lastSeen <= up[j].lastSeen}
    IN  IF failedCards # {} THEN PlainResult(n, SortedFirst(failedCards, FailedGt))
        ELSE IF dueCards # {} THEN PlainResult(n, SortedFirst(dueCards, DueGt))
        ELSE IF /\ newCards # {}
                /\ newCardsToday < MaxNewCardsPerDay("improved")
                /\ shouldIntroduceNew
             THEN PlainResult(n, LowestIndex(newCards))
        ELSE IF older # {} THEN PlainResult(n, LowestIndex(oldest))
        ELSE PlainResult(n, 0)

--------------------------------------------------------------------------
(* AnkiAlgorithm and AggressiveAlgorithm *)

AnkiGetNextCard(n, up, t) ==
    LET idx == 0..(n - 1)
        newCards == {i \in idx : ~HasRecord(up, i)}
        dueCards == {i \in idx : HasRecord(up, i) /\ t >= up[i].nextReview}
        DueGt(i, j) == (t - up[i].nextReview) > (t - up[j].nextReview)
        newCardsToday == GetNewCardsSeenToday(up, t)
    IN  IF dueCards # {} THEN PlainResult(n, SortedFirst(dueCards, DueGt))
        ELSE IF newCards # {} /\ newCardsToday < MaxNewCardsPerDay("anki")
             THEN PlainResult(n, LowestIndex(newCards))
        ELSE IF newCards # {} THEN PlainResult(n, LowestIndex(newCards))
        ELSE PlainResult(n, 0)

\* AggressiveAlgorithm.getNextCard delegates to a fresh ImprovedSSRAlgorithm, whose
\* config is the Improved one.
AggressiveGetNextCard(n, up, failed, streak, t) ==
    ImprovedGetNextCard(n, up, failed, streak, t)

--------------------------------------------------------------------------
(* MasteryBasedAlgorithm *)

\* this.config.difficultyIntervals[difficulty]
DifficultyInterval(difficulty) ==
    CASE difficulty = 1 -> [min |-> 1, max |-> 3]
      [] difficulty = 2 -> [min |-> 4, max |-> 8]
      [] difficulty = 3 -> [min |-> 9, max |-> 20]
      [] difficulty = 4 -> [min |-> 21, max |-> 50]
      [] difficulty = 5 -> [min |-> 51, max |-> 100]

\* A faulty getMasteryLevel (C27): the test for 'familiar' comes first.
GetMasteryLevelFamiliarFirst(p) ==
    IF ~p.present THEN "new"
    ELSE IF p.reviewCount >= 3 /\ 5 * p.successRate[1] >= 3 * p.successRate[2]
         THEN "familiar"
    ELSE IF p.reviewCount > 0 THEN "learning"
    ELSE "new"

\* getMasteryLevel(progress); successRate is << num, den >>, so successRate >= 0.8
\* is 5 * num >= 4 * den (the quotients 4/5, 9/10 and 3/5 are the doubles 0.8, 0.9
\* and 0.6 themselves).
GetMasteryLevel(p) ==
    IF ~p.present THEN "new"
    ELSE LET reviewCount == p.reviewCount
             num == p.successRate[1]
             den == p.successRate[2]
         IN  IF \/ reviewCount >= 5 /\ 5 * num >= 4 * den
                \/ reviewCount >= 3 /\ 10 * num >= 9 * den
             THEN "mastered"
             ELSE IF reviewCount >= 3 /\ 5 * num >= 3 * den THEN "familiar"
             ELSE IF reviewCount > 0 THEN "learning"
             ELSE "new"

\* The values Math.floor(Math.random() * range) can take.
RandomBelow(range) == 0..(range - 1)

\* calculateTargetReviewPosition, for the draw rnd = Math.floor(Math.random() * range).
CalculateTargetReviewPosition(difficulty, seen, rnd) ==
    LET interval == DifficultyInterval(difficulty)
    IN  seen + interval.min + rnd

\* The range the draw of calculateTargetReviewPosition is taken from.
TargetRange(difficulty) ==
    DifficultyInterval(difficulty).max - DifficultyInterval(difficulty).min

\* A faulty getNextCard (C25): a new card is introduced whatever the streak.
MasteryGetNextCardAnyStreak(n, up, streak, seen) ==
    LET idx == 0..(n - 1)
        newCards == {i \in idx : ~HasRecord(up, i)}
        recorded == {i \in idx : HasRecord(up, i)}
        cardsUntilDue(i) == IF IsSome(up[i].targetReviewPosition)
                            THEN Val(up[i].targetReviewPosition) - seen ELSE 0
        dueNow == {i \in recorded : cardsUntilDue(i) <= 0}
        first == {i \in dueNow : \A j \in dueNow : cardsUntilDue(i) <= cardsUntilDue(j)}
        soonest == {i \in recorded : \A j \in recorded : cardsUntilDue(i) <= cardsUntilDue(j)}
    IN  IF dueNow # {} THEN {PlainResult(n, LowestIndex(first))}
        ELSE IF newCards # {} THEN {PlainResult(n, LowestIndex(newCards))}
        ELSE IF recorded # {} THEN {PlainResult(n, LowestIndex(soonest))}
        ELSE {PlainResult(n, 0)}

\* MasteryBasedAlgorithm.getNextCard after this.sessionCardsSeen++: seen is the
\* incremented counter.  The set of results the random pick allows.
MasteryGetNextCard(n, up, streak, seen) ==
    LET idx == 0..(n - 1)
        newCards == {i \in idx : ~HasRecord(up, i)}
        positioned == {i \in idx : HasRecord(up, i) /\ IsSome(up[i].targetReviewPosition)}
        unpositioned == {i \in idx : HasRecord(up, i) /\ ~IsSome(up[i].targetReviewPosition)}
        cardsUntilDue(i) == Val(up[i].targetReviewPosition) - seen
        dueNow == {i \in positioned : cardsUntilDue(i) <= 0} \cup unpositioned
        dueSoon == {i \in positioned : cardsUntilDue(i) > 0 /\ cardsUntilDue(i) <= 5}
        dueLater == {i \in positioned : cardsUntilDue(i) > 5}
        overdue(i) == IF i \in unpositioned THEN 0 ELSE 0 - cardsUntilDue(i)
        Before(j, i) == overdue(j) > overdue(i) \/ (overdue(j) = overdue(i) /\ j < i)
        topCandidates == {i \in dueNow : Cardinality({j \in dueNow : Before(j, i)}) < 3}
        SoonerGt(i, j) == cardsUntilDue(i) < cardsUntilDue(j)
    IN  IF dueNow # {} THEN {PlainResult(n, i) : i \in topCandidates}
        ELSE IF newCards # {} /\ streak >= 1 THEN {PlainResult(n, LowestIndex(newCards))}
        ELSE IF dueSoon # {} THEN {PlainResult(n, SortedFirst(dueSoon, SoonerGt))}
        ELSE IF dueLater # {} THEN {PlainResult(n, SortedFirst(dueLater, SoonerGt))}
        ELSE IF newCards # {} THEN {PlainResult(n, LowestIndex(newCards))}
        ELSE {PlainResult(n, 0)}

--------------------------------------------------------------------------
(* BucketAlgorithm *)

IsCardMastered(p) ==
    /\ p.present
    /\ p.consecutiveGood >= Val(MasteryThreshold("bucket"))
    /\ ~p.wasUnmastered

GetActiveBucket(up) == {i \in Recorded(up) : up[i].inBucket /\ ~IsCardMastered(up[i])}

GetMasteredCards(up) == {i \in Recorded(up) : IsCardMastered(up[i])}

\* A faulty getNextCard (C31): below capacity a mastery check is drawn whenever the
\* mastered pool has a card, whatever Math.random() gives.
BucketGetNextCardAlwaysCheck(n, up) ==
    LET idx == 0..(n - 1)
        bucketCards == GetActiveBucket(up)
        masteredCards == GetMasteredCards(up)
        newCards == {i \in idx : ~HasRecord(up, i)}
        rest ==
            IF bucketCards # {}
            THEN {PlainResult(n, c) : c \in bucketCards \cap idx}
            ELSE IF masteredCards # {}
                 THEN {MkResult(n, c, FALSE, FALSE, FALSE, TRUE) : c \in masteredCards \cap idx}
                 ELSE IF n > 0 THEN {MkResult(n, 0, TRUE, TRUE, FALSE, FALSE)}
                      ELSE {NullResult}
    IN  IF Cardinality(bucketCards) < BucketSize
        THEN IF masteredCards # {}
             THEN {MkResult(n, c, FALSE, FALSE, FALSE, TRUE) : c \in masteredCards \cap idx}
             ELSE IF newCards # {}
                  THEN {MkResult(n, LowestIndex(newCards), TRUE, TRUE, FALSE, FALSE)}
                  ELSE rest
        ELSE rest

\* A faulty getNextCard (C30): a mastered card can be drawn for a mastery check
\* whether the bucket is full or not.
BucketGetNextCardCheckWhenFull(n, up) ==
    LET idx == 0..(n - 1)
        bucketCards == GetActiveBucket(up)
        masteredCards == GetMasteredCards(up)
        newCards == {i \in idx : ~HasRecord(up, i)}
    IN  {MkResult(n, c, FALSE, FALSE, FALSE, TRUE) : c \in masteredCards}
          \cup (IF Cardinality(bucketCards) < BucketSize /\ newCards # {}
                THEN {MkResult(n, LowestIndex(newCards), TRUE, TRUE, FALSE, FALSE)}
                ELSE IF bucketCards # {} THEN {PlainResult(n, c) : c \in bucketCards}
                ELSE IF masteredCards # {} THEN {}
                ELSE IF n > 0 THEN {MkResult(n, 0, TRUE, TRUE, FALSE, FALSE)}
                ELSE {NullResult})

\* A faulty getNextCard (C1): the capacity test admits a card into a full bucket.
BucketGetNextCardOverfill(n, up) ==
    LET idx == 0..(n - 1)
        bucketCards == GetActiveBucket(up)
        newCards == {i \in idx : ~HasRecord(up, i)}
    IN  IF Cardinality(bucketCards) <= BucketSize /\ newCards # {}
        THEN {MkResult(n, LowestIndex(newCards), TRUE, TRUE, FALSE, FALSE)}
        ELSE IF bucketCards # {} THEN {PlainResult(n, c) : c \in bucketCards}
        ELSE IF n > 0 THEN {MkResult(n, 0, TRUE, TRUE, FALSE, FALSE)}
        ELSE {NullResult}

\* BucketAlgorithm.getNextCard: the set of results its random draws allow.
BucketGetNextCard(n, up) ==
    LET idx == 0..(n - 1)
        bucketCards == GetActiveBucket(up)
        masteredCards == GetMasteredCards(up)
        newCards == {i \in idx : ~HasRecord(up, i)}
        \* from "pick random from bucket" to the end of the function
        rest ==
            LET fromMastered ==
                    {MkResult(n, c, FALSE, FALSE, FALSE, TRUE) : c \in masteredCards \cap idx}
                fallback ==
                    IF n > 0 THEN {MkResult(n, 0, TRUE, TRUE, FALSE, FALSE)}
                    ELSE {NullResult}
                afterBucket ==
                    IF masteredCards # {}
                    THEN fromMastered
                           \cup (IF masteredCards \subseteq idx THEN {} ELSE fallback)
                    ELSE fallback
            IN  IF bucketCards # {}
                THEN {PlainResult(n, c) : c \in bucketCards \cap idx}
                       \cup (IF bucketCards \subseteq idx THEN {} ELSE afterBucket)
                ELSE afterBucket
        \* the branch taken when the bucket is not full, for one outcome of
        \* Math.random() < masteredReviewChance
        notFull(shouldPullMastered) ==
            IF shouldPullMastered /\ masteredCards # {}
            THEN {MkResult(n, c, FALSE, FALSE, FALSE, TRUE) : c \in masteredCards \cap idx}
                   \cup (IF masteredCards \subseteq idx THEN {} ELSE rest)
            ELSE IF newCards # {}
                 THEN {MkResult(n, LowestIndex(newCards), TRUE, TRUE, FALSE, FALSE)}
                 ELSE rest
    IN  IF Cardinality(bucketCards) < BucketSize
        THEN notFull(TRUE) \cup notFull(FALSE)
        ELSE rest

--------------------------------------------------------------------------
(* FocusedSetsAlgorithm *)

GetCardScore(up, i) == IF HasRecord(up, i) THEN up[i].score ELSE InitialScore

ScoreChange(difficulty) ==
    CASE difficulty = 1 -> 5
      [] difficulty = 2 -> 3
      [] difficulty = 3 -> 1
      [] difficulty = 4 -> -1
      [] difficulty = 5 -> -3
      [] OTHER -> 0

\* A faulty updateScore (C15): the score is not let below zero.
UpdateScoreFloored(currentScore, difficulty) ==
    Max2(currentScore + ScoreChange(difficulty), 0)

UpdateScore(currentScore, difficulty) == currentScore + ScoreChange(difficulty)

GetActiveSet(up) == {i \in Recorded(up) : up[i].inSet}

\* The candidate lists of initializeSet, getNextCard and backfillSet: the catalog
\* indices not in the set, in catalog order, each with its score.
SetCandidates(n, up) ==
    LET RECURSIVE build(_)
        build(i) ==
            IF i >= n THEN << >>
            ELSE IF HasRecord(up, i) /\ up[i].inSet THEN build(i + 1)
            ELSE << [index |-> i, score |-> GetCardScore(up, i)] >> \o build(i + 1)
    IN  build(0)

\* The weights of weightedRandomSelect, in tenths.
SelectWeights(items) ==
    LET minScore == CHOOSE m \in {items[k].score : k \in DOMAIN items} :
                        \A k \in DOMAIN items : m <= items[k].score
        offset == IF minScore < 0 THEN (0 - minScore) + 1 ELSE 0
    IN  [k \in DOMAIN items |-> Max2((items[k].score + offset) * 10, 1)]

RECURSIVE SumTo(_, _)
SumTo(w, k) == IF k = 0 THEN 0 ELSE w[k] + SumTo(w, k - 1)

\* A faulty loop (C20): random is compared with each weight without being reduced.
SelectAtNotReduced(items, r) ==
    LET w == SelectWeights(items)
        hits == {k \in DOMAIN items : r <= 2 * w[k]}
    IN  IF hits = {} THEN items[Len(items)]
        ELSE items[CHOOSE k \in hits : \A j \in hits : k <= j]

\* The item the loop of weightedRandomSelect returns for random = r/20: the first
\* whose cumulative weight reaches it (the last one if none does).
SelectAt(items, r) ==
    LET w == SelectWeights(items)
        hits == {k \in DOMAIN items : r <= 2 * SumTo(w, k)}
    IN  IF hits = {} THEN items[Len(items)]
        ELSE items[CHOOSE k \in hits : \A j \in hits : k <= j]

\* weightedRandomSelect(items, item => item.score): the items it can return, null
\* ( << >> ) for an empty list.  Math.random() * totalWeight ranges over
\* [0, totalWeight); it is followed in steps of 0.05.
WeightedRandomSelect(items) ==
    IF Len(items) = 0 THEN {None}
    ELSE IF Len(items) = 1 THEN {Some(items[1])}
    ELSE LET total == SumTo(SelectWeights(items), Len(items))
         IN  {Some(SelectAt(items, r)) : r \in 0..(2 * total - 1)}

\* The probability that weightedRandomSelect returns items[k], as << num, den >>.
\* random is uniform over [0, totalWeight); the weights are whole tenths, so the item
\* returned is the same throughout each interval (t/10, (t+1)/10) and is the one
\* returned at its midpoint (2t+1)/20.
SelectChance(items, k) ==
    IF Len(items) = 1 THEN << 1, 1 >>
    ELSE LET total == SumTo(SelectWeights(items), Len(items))
         IN  << Cardinality({t \in 0..(total - 1) :
                                 SelectAt(items, 2 * t + 1) = items[k]}), total >>

\* A faulty getNextCard (C10): the candidate list is not tested for emptiness before
\* the selected candidate is read.
ScoreGetNextCardUnguarded(n, up) ==
    LET setCards == GetActiveSet(up)
        candidates == SetCandidates(n, up)
        fromSet == IF setCards # {} THEN {PlainResult(n, c) : c \in setCards}
                   ELSE {MkResult(n, 0, TRUE, FALSE, TRUE, FALSE)}
    IN  IF Cardinality(setCards) < SetSize
        THEN {IF IsSome(s)
              THEN MkResult(n, Val(s).index, ~HasRecord(up, Val(s).index),
                            FALSE, TRUE, FALSE)
              ELSE ThrownResult : s \in WeightedRandomSelect(candidates)}
        ELSE fromSet

\* A faulty getNextCard (C34): a set that has a member serves its members before it
\* is full.
ScoreGetNextCardMembersFirst(n, up) ==
    LET setCards == GetActiveSet(up)
        candidates == SetCandidates(n, up)
    IN  IF setCards # {}
        THEN {PlainResult(n, c) : c \in setCards}
        ELSE IF Len(candidates) > 0
             THEN {IF IsSome(s)
                   THEN MkResult(n, Val(s).index, ~HasRecord(up, Val(s).index),
                                 FALSE, TRUE, FALSE)
                   ELSE ThrownResult : s \in WeightedRandomSelect(candidates)}
             ELSE {MkResult(n, 0, TRUE, FALSE, TRUE, FALSE)}

\* FocusedSetsAlgorithm.getNextCard: the set of results its random draws allow.
ScoreGetNextCard(n, up) ==
    LET setCards == GetActiveSet(up)
        candidates == SetCandidates(n, up)
        fromSet == IF setCards # {} THEN {PlainResult(n, c) : c \in setCards}
                   ELSE {MkResult(n, 0, TRUE, FALSE, TRUE, FALSE)}
    IN  IF Cardinality(setCards) < SetSize /\ Len(candidates) > 0
        THEN {IF IsSome(s)
              THEN MkResult(n, Val(s).index, ~HasRecord(up, Val(s).index),
                            FALSE, TRUE, FALSE)
              ELSE ThrownResult : s \in WeightedRandomSelect(candidates)}
        ELSE fromSet

--------------------------------------------------------------------------
(* The algorithm instance app.algorithm *)

\* algorithm.getNextCard(characters, userProgress, algorithmState) of the active
\* variant: the set of results it can return.  seen is sessionCardsSeen after the
\* call's increment (Mastery only).
GetNextCard(alg, n, up, failed, streak, seen, t) ==
    CASE alg = "improved" -> {ImprovedGetNextCard(n, up, failed, streak, t)}
      [] alg = "anki" -> {AnkiGetNextCard(n, up, t)}
      [] alg = "aggressive" -> {AggressiveGetNextCard(n, up, failed, streak, t)}
      [] alg = "mastery" -> MasteryGetNextCard(n, up, streak, seen)
      [] alg = "bucket" -> BucketGetNextCard(n, up)
      [] alg = "score" -> ScoreGetNextCard(n, up)

\* A faulty getNextCard (C2): selecting a card stamps its record as seen.
ProgressAfterGetNextCardStamped(alg, up, result, t) ==
    IF ~result.isNull /\ HasRecord(up, result.index)
    THEN [up EXCEPT ![result.index].lastSeen = t]
    ELSE up

\* What a getNextCard call leaves in userProgress: every variant only reads it (the
\* arrays it fills and sorts are its own).
ProgressAfterGetNextCard(alg, up, result, t) == up

\* What a getNextCard call leaves in sessionCardsSeen: this.sessionCardsSeen++ in
\* MasteryBasedAlgorithm, untouched (absent) in the other variants.
SeenAfterGetNextCard(alg, seen) == IF alg = "mastery" THEN seen + 1 ELSE seen

--------------------------------------------------------------------------
(* ChineseCharacterApp: progress records *)

\* A faulty placeholder record (C5): it counts the admission as a review.
NewSetRecordCounted(t, entryScore) ==
    [ present |-> TRUE, firstSeen |-> t, reviewCount |-> 1, successCount |-> 0,
      successRate |-> << 0, 1 >>, lastDifficulty |-> None, lastSeen |-> t,
      nextReview |-> t, interval |-> Ms(1000), history |-> << >>,
      targetReviewPosition |-> None, consecutiveGood |-> 0, wasUnmastered |-> FALSE,
      masteredAt |-> None, inBucket |-> FALSE, inSet |-> TRUE,
      setEntryScore |-> Some(entryScore), score |-> entryScore ]

\* The record init() and backfillSet() create for a card that enters the set
\* without having been shown.
NewSetRecord(t, entryScore) ==
    [ present |-> TRUE, firstSeen |-> t, reviewCount |-> 0, successCount |-> 0,
      successRate |-> << 0, 1 >>, lastDifficulty |-> None, lastSeen |-> t,
      nextReview |-> t, interval |-> Ms(1000), history |-> << >>,
      targetReviewPosition |-> None, consecutiveGood |-> 0, wasUnmastered |-> FALSE,
      masteredAt |-> None, inBucket |-> FALSE, inSet |-> TRUE,
      setEntryScore |-> Some(entryScore), score |-> entryScore ]

\* recordDifficulty, "First time seeing this card": the record it creates.
FirstRecord(alg, cur, difficulty, t, trp) ==
    LET initialInterval == CalculateInitialInterval(alg, difficulty)
        initialScore == IF AlgorithmName(alg) = "Focused Sets" THEN InitialScore ELSE 0
        isAddingToSet == cur.addToSet
        correct == IF IsCardCorrect(alg, difficulty) THEN 1 ELSE 0
    IN  [ present |-> TRUE, firstSeen |-> t, reviewCount |-> 1,
          successCount |-> correct, successRate |-> << correct, 1 >>,
          lastDifficulty |-> Some(difficulty), lastSeen |-> t,
          nextReview |-> t + initialInterval, interval |-> initialInterval,
          history |-> << difficulty >>, targetReviewPosition |-> trp,
          consecutiveGood |-> IF difficulty >= 4 THEN 1 ELSE 0,
          wasUnmastered |-> FALSE, masteredAt |-> None,
          inBucket |-> cur.addToBucket, inSet |-> isAddingToSet,
          setEntryScore |-> IF isAddingToSet THEN Some(initialScore) ELSE None,
          score |-> IF AlgorithmName(alg) = "Focused Sets"
                    THEN UpdateScore(initialScore, difficulty) ELSE initialScore ]

\* A faulty test (C29): a rating below 4 never takes a card's mastery.
LosesMasteryNever(alg, p, difficulty) == FALSE

\* recordDifficulty, "If this was a mastered card, mark it as unmastered": the test,
\* in the branch of a rating below 4.
LosesMastery(alg, p, difficulty) ==
    ~(difficulty >= 4) /\ IsSome(MasteryThreshold(alg)) /\ IsSome(p.masteredAt)

\* A faulty update branch (C36): the rating is appended and the record is stamped as
\* first seen now.
UpdatedRecordRestamped(alg, p, difficulty, t, trp) ==
    [ p EXCEPT
        !.reviewCount = p.reviewCount + 1,
        !.lastDifficulty = Some(difficulty),
        !.lastSeen = t,
        !.firstSeen = t,
        !.history = Append(p.history, difficulty) ]

\* recordDifficulty, "Updating existing card", up to the interval and the target
\* position (everything but the Focused Sets part).
UpdatedRecord(alg, p, difficulty, t, trp) ==
    LET reviewCount == p.reviewCount + 1
        successCount == p.successCount + (IF IsCardCorrect(alg, difficulty) THEN 1 ELSE 0)
        successRate == << successCount, reviewCount >>
        good == difficulty >= 4
        consecutiveGood == IF good THEN p.consecutiveGood + 1 ELSE 0
        justMastered == /\ good
                        /\ IsSome(MasteryThreshold(alg))
                        /\ consecutiveGood = Val(MasteryThreshold(alg))
                        /\ ~IsSome(p.masteredAt)
        unmastered == LosesMastery(alg, p, difficulty)
        interval == CalculateNextInterval(alg, difficulty, p.interval, successRate)
    IN  [ p EXCEPT
            !.reviewCount = reviewCount,
            !.lastDifficulty = Some(difficulty),
            !.lastSeen = t,
            !.history = Append(p.history, difficulty),
            !.successCount = successCount,
            !.successRate = successRate,
            !.consecutiveGood = consecutiveGood,
            !.masteredAt = IF justMastered THEN Some(t)
                           ELSE IF unmastered THEN None ELSE p.masteredAt,
            !.wasUnmastered = IF justMastered THEN FALSE
                              ELSE IF unmastered THEN TRUE ELSE p.wasUnmastered,
            !.inBucket = IF justMastered /\ AlgorithmName(alg) = "Bucket Learning"
                         THEN FALSE
                         ELSE IF unmastered /\ AlgorithmName(alg) = "Bucket Learning"
                         THEN TRUE ELSE p.inBucket,
            !.interval = interval,
            !.nextReview = t + interval,
            !.targetReviewPosition = IF IsSome(trp) THEN trp ELSE p.targetReviewPosition ]

\* A faulty backfillSet (C35): no card is admitted.
BackfillSetSkipped(alg, n, up, t) == {[up |-> up, selected |-> None]}

\* backfillSet(): the progress maps it can leave, each with the index it admitted
\* ( << >> when it admits none).
BackfillSet(alg, n, up, t) ==
    LET candidates == SetCandidates(n, up)
        admit(s) ==
            IF ~HasRecord(up, s.index)
            THEN [up EXCEPT ![s.index] = NewSetRecord(t, s.score)]
            ELSE [up EXCEPT ![s.index].inSet = TRUE,
                            ![s.index].setEntryScore = Some(s.score)]
    IN  IF AlgorithmName(alg) # "Focused Sets" \/ Len(candidates) = 0
        THEN {[up |-> up, selected |-> None]}
        ELSE {[up |-> admit(Val(s)), selected |-> Some(Val(s).index)] :
                 s \in WeightedRandomSelect(candidates)}

\* recordDifficulty, the Focused Sets part of "Updating existing card" for the
\* record p of index i (already updated by UpdatedRecord, score aside): the outcomes
\* [up, graduated, backfilled].
ScoreUpdate(alg, n, up, i, cur, difficulty, t) ==
    LET p == up[i]
        oldScore == p.score
        entering == cur.addToSet /\ ~p.inSet
        scored == [p EXCEPT !.score = UpdateScore(oldScore, difficulty),
                            !.inSet = IF entering THEN TRUE ELSE p.inSet,
                            !.setEntryScore = IF entering THEN Some(oldScore)
                                              ELSE p.setEntryScore]
        graduates == /\ scored.inSet
                     /\ IsSome(scored.setEntryScore)
                     /\ scored.score < Val(scored.setEntryScore)
        left == [up EXCEPT ![i] = [scored EXCEPT !.inSet = FALSE]]
    IN  IF AlgorithmName(alg) # "Focused Sets"
        THEN {[up |-> up, graduated |-> FALSE, backfilled |-> None]}
        ELSE IF graduates
        THEN {[up |-> b.up, graduated |-> TRUE, backfilled |-> b.selected] :
                 b \in BackfillSet(alg, n, left, t)}
        ELSE {[up |-> [up EXCEPT ![i] = scored], graduated |-> FALSE,
               backfilled |-> None]}

\* The progress-map part of recordDifficulty(difficulty) for the card of the current
\* result: the outcomes [up, graduated, backfilled].
RecordOutcomes(alg, n, up, cur, difficulty, t, trp) ==
    LET i == cur.index
    IN  IF ~HasRecord(up, i)
        THEN {[up |-> [up EXCEPT ![i] = FirstRecord(alg, cur, difficulty, t, trp)],
               graduated |-> FALSE, backfilled |-> None]}
        ELSE ScoreUpdate(alg, n, [up EXCEPT ![i] = UpdatedRecord(alg, up[i], difficulty, t, trp)],
                         i, cur, difficulty, t)

--------------------------------------------------------------------------
(* ChineseCharacterApp: the handlers *)

\* The properties ALGORITHMS inherits from Object.prototype that are not
\* constructors: built-in methods, and __proto__ (an object).
InheritedNonConstructors == {"toString", "valueOf", "hasOwnProperty", "__proto__"}

\* ALGORITHMS[type] of src/unnamed/part_001 (the registry app.js runs against: the
\* only one that registers 'score'): the class registered for the name, what the
\* object literal inherits for it, or "undefined".
RegistryLookup(type) ==
    CASE type \in AlgorithmTypes -> type
      [] type = "constructor" -> "Object"
      [] type \in InheritedNonConstructors -> "nonConstructor"
      [] OTHER -> "undefined"

\* createAlgorithm(type): new (ALGORITHMS[type] || BucketAlgorithm)().  The result is
\* the variant instantiated, "Object" for a plain object that is no algorithm, or
\* "TypeError" when new is applied to a value that is not a constructor.
CreateAlgorithm(type) ==
    LET AlgorithmClass == IF RegistryLookup(type) = "undefined" THEN "bucket"
                          ELSE RegistryLookup(type)
    IN  IF AlgorithmClass = "nonConstructor" THEN "TypeError" ELSE AlgorithmClass

\* createAlgorithm(): the default parameter value stands for the missing argument.
CreateAlgorithmDefault == CreateAlgorithm("bucket")

\* What lastOp says of a handler.
Op(name) ==
    [ op |-> name, difficulty |-> 0, index |-> 0, recorded |-> FALSE,
      graduated |-> FALSE, backfilled |-> None, result |-> NullResult,
      before |-> << >> ]

\* The selections initializeSet can return (as sets of indices): up to setSize
\* weighted draws without replacement, none when the set already has members.
RECURSIVE DrawSet(_, _)
DrawSet(candidates, k) ==
    IF k = 0 \/ Len(candidates) = 0 THEN {{}}
    ELSE UNION { { {Val(s).index} \cup rest :
                     rest \in DrawSet(SelectSeq(candidates,
                                                LAMBDA c : c.index # Val(s).index), k - 1) } :
                 s \in WeightedRandomSelect(candidates) }

InitializeSet(n, up) ==
    IF GetActiveSet(up) # {} THEN {{}}
    ELSE DrawSet(SetCandidates(n, up), Min2(SetSize, Len(SetCandidates(n, up))))

\* The state the constructor leaves at time t for a catalog of n items, a variant
\* name and the progress map up that loadProgress() reads from the store.
AppLoaded(n, type, up, t) ==
    /\ characters = n
    /\ algType = type
    /\ algorithm = CreateAlgorithm(type)
    /\ userProgress = up
    /\ recentFailedCards = {}
    /\ sessionCorrectStreak = 0
    /\ todayReviews = 0
    /\ sessionCardsSeen = 0
    /\ currentResult = NullResult
    /\ timers = << >>
    /\ now = t
    /\ ticks = 0
    /\ phase = "boot"
    /\ lastOp = Op("constructor")
    /\ rated = {i \in Recorded(up) : up[i].reviewCount >= 1}

\* The same with an empty store, at the clock's origin.
AppConstructed(n, type) == AppLoaded(n, type, [i \in 0..(n - 1) |-> NoRecord], 0)

\* The same, with no pure function under test.
Constructed(n, type) == AppConstructed(n, type) /\ probe = None

\* init(): the Focused Sets set initialisation; startNewRound() follows.
AppInit ==
    /\ phase = "boot"
    /\ \E picks \in (IF AlgorithmName(algorithm) = "Focused Sets"
                     THEN InitializeSet(characters, userProgress) ELSE {{}}) :
          userProgress' = [i \in DOMAIN userProgress |->
                              IF i \in picks /\ ~HasRecord(userProgress, i)
                              THEN NewSetRecord(now, 0) ELSE userProgress[i]]
    /\ phase' = "select"
    /\ lastOp' = Op("init")
    /\ UNCHANGED << characters, algType, algorithm, recentFailedCards,
                    sessionCorrectStreak, todayReviews, sessionCardsSeen, currentResult,
                    timers, now, ticks, rated, probe >>

\* nextCharacter(): the getNextCard call and what the app keeps of its result.
NextCharacter ==
    /\ phase = "select"
    /\ sessionCardsSeen' = SeenAfterGetNextCard(algorithm, sessionCardsSeen)
    /\ \E r \in GetNextCard(algorithm, characters, userProgress, recentFailedCards,
                            sessionCorrectStreak, sessionCardsSeen', now) :
          /\ userProgress' = ProgressAfterGetNextCard(algorithm, userProgress, r, now)
          /\ currentResult' = IF r.threw \/ r.isNull \/ ~r.hasChar
                              THEN currentResult ELSE r
          /\ lastOp' = [Op("nextCharacter") EXCEPT !.result = r]
    /\ phase' = "shown"
    /\ UNCHANGED << characters, algType, algorithm, recentFailedCards,
                    sessionCorrectStreak, todayReviews, timers, now, ticks, rated, probe >>

\* The getNextCard calls showUpcomingCards simulates.
PreviewCalls == 20

\* sessionCardsSeen of the instance after k getNextCard calls.
RECURSIVE SeenAfterCalls(_, _, _)
SeenAfterCalls(alg, seen, k) ==
    IF k = 0 THEN seen ELSE SeenAfterCalls(alg, SeenAfterGetNextCard(alg, seen), k - 1)

\* A faulty showUpcomingCards (C26): the counter is not put back after the simulation.
SeenAfterShowUpcomingCardsNotRestored(alg, seen) == SeenAfterCalls(alg, seen, PreviewCalls)

\* What showUpcomingCards leaves in sessionCardsSeen: the value saved before the
\* simulated calls is written back where the instance has the counter.
SeenAfterShowUpcomingCards(alg, seen) ==
    LET originalSessionCards == seen
        simulated == SeenAfterCalls(alg, seen, PreviewCalls)
    IN  IF alg = "mastery" THEN originalSessionCards ELSE simulated

\* showUpcomingCards() of the debug panel: the simulated calls only read
\* userProgress and algorithmState; their results go to the panel.
ShowUpcomingCards ==
    /\ phase = "shown"
    /\ sessionCardsSeen' = SeenAfterShowUpcomingCards(algorithm, sessionCardsSeen)
    /\ lastOp' = Op("showUpcomingCards")
    /\ UNCHANGED << characters, algType, algorithm, userProgress, recentFailedCards,
                    sessionCorrectStreak, todayReviews, currentResult, timers, now,
                    ticks, phase, rated, probe >>

\* The draws of calculateTargetReviewPosition that are followed.
FollowedDraws(range) == {k \in RandomBelow(range) : k < MaxDraw \/ k = range - 1}

\* recordDifficulty(difficulty); the handlers that call it go on to nextCharacter().
RecordDifficulty(difficulty) ==
    /\ phase = "shown"
    /\ phase' = "select"
    /\ IF ~currentResult.hasChar
       THEN /\ lastOp' = [Op("recordDifficulty") EXCEPT !.difficulty = difficulty]
            /\ UNCHANGED << userProgress, recentFailedCards, sessionCorrectStreak,
                            todayReviews, timers, rated >>
       ELSE LET index == currentResult.index
                timeout == IF IsSome(FailedCardTimeout(algorithm))
                           THEN Val(FailedCardTimeout(algorithm)) ELSE 0
            IN  /\ IF IsCardFailed(algorithm, difficulty)
                   THEN /\ recentFailedCards' = recentFailedCards \cup {index}
                        /\ sessionCorrectStreak' = 0
                        /\ timers' = Append(timers, [index |-> index, due |-> now + timeout])
                   ELSE /\ sessionCorrectStreak' = sessionCorrectStreak + 1
                        /\ recentFailedCards' = recentFailedCards \ {index}
                        /\ timers' = timers
                /\ \E trp \in (IF algorithm = "mastery"
                               THEN {Some(CalculateTargetReviewPosition(
                                              difficulty, sessionCardsSeen, rnd)) :
                                        rnd \in FollowedDraws(TargetRange(difficulty))}
                               ELSE {None}) :
                   \E o \in RecordOutcomes(algorithm, characters, userProgress,
                                           currentResult, difficulty, now, trp) :
                      /\ userProgress' = o.up
                      /\ lastOp' = [Op("recordDifficulty") EXCEPT
                                       !.difficulty = difficulty, !.index = index,
                                       !.recorded = TRUE, !.graduated = o.graduated,
                                       !.backfilled = o.backfilled,
                                       !.before = << userProgress[index] >>]
                /\ todayReviews' = todayReviews + 1
                /\ rated' = rated \cup {index}
    /\ UNCHANGED << characters, algType, algorithm, sessionCardsSeen, currentResult,
                    now, ticks, probe >>

\* switchAlgorithm(algorithmType)
SwitchAlgorithm(type) ==
    /\ phase = "shown"
    /\ IF algType = type
       THEN /\ lastOp' = Op("switchAlgorithm")
            /\ UNCHANGED << algType, algorithm, sessionCorrectStreak, recentFailedCards,
                            sessionCardsSeen, phase >>
       ELSE /\ algType' = type
            /\ algorithm' = CreateAlgorithm(type)
            /\ sessionCardsSeen' = 0
            /\ sessionCorrectStreak' = 0
            /\ recentFailedCards' = {}
            /\ phase' = "select"
            /\ lastOp' = [Op("switchAlgorithm") EXCEPT !.recorded = TRUE]
    /\ UNCHANGED << characters, userProgress, todayReviews, currentResult, timers, now,
                    ticks, rated, probe >>

\* The pending timer that fires next: the earliest due, the first created among those.
NextTimer ==
    CHOOSE k \in DOMAIN timers :
        /\ \A j \in DOMAIN timers : timers[k].due <= timers[j].due
        /\ \A j \in DOMAIN timers : timers[j].due = timers[k].due => k <= j

\* A faulty callback (C17): it runs and leaves recentFailedCards as it is.
FireTimerKeeps ==
    /\ phase = "shown"
    /\ timers # << >>
    /\ timers[NextTimer].due <= now
    /\ timers' = [k \in 1..(Len(timers) - 1) |->
                     IF k < NextTimer THEN timers[k] ELSE timers[k + 1]]
    /\ lastOp' = [Op("timer") EXCEPT !.index = timers[NextTimer].index]
    /\ UNCHANGED << characters, algType, algorithm, userProgress, recentFailedCards,
                    sessionCorrectStreak, todayReviews, sessionCardsSeen, currentResult,
                    now, ticks, phase, rated, probe >>

\* The setTimeout callback of recordDifficulty: recentFailedCards.delete(index).
FireTimer ==
    /\ phase = "shown"
    /\ timers # << >>
    /\ timers[NextTimer].due <= now
    /\ recentFailedCards' = recentFailedCards \ {timers[NextTimer].index}
    /\ timers' = [k \in 1..(Len(timers) - 1) |->
                     IF k < NextTimer THEN timers[k] ELSE timers[k + 1]]
    /\ lastOp' = [Op("timer") EXCEPT !.index = timers[NextTimer].index]
    /\ UNCHANGED << characters, algType, algorithm, userProgress, sessionCorrectStreak,
                    todayReviews, sessionCardsSeen, currentResult, now, ticks, phase,
                    rated, probe >>

\* The clock advances by d between two events; a timer fires when it falls due, so
\* the clock does not pass a pending timer.
Tick(d) ==
    /\ phase = "shown"
    /\ \A k \in DOMAIN timers : now + d <= timers[k].due
    /\ now' = now + d
    /\ ticks' = ticks + 1
    /\ lastOp' = Op("tick")
    /\ UNCHANGED << characters, algType, algorithm, userProgress, recentFailedCards,
                    sessionCorrectStreak, todayReviews, sessionCardsSeen, currentResult,
                    timers, phase, rated, probe >>

\* Time passes with nothing else happening until the earliest pending timer falls due.
AdvanceToTimer ==
    /\ phase = "shown"
    /\ timers # << >>
    /\ timers[NextTimer].due > now
    /\ now' = timers[NextTimer].due
    /\ lastOp' = Op("tick")
    /\ UNCHANGED << characters, algType, algorithm, userProgress, recentFailedCards,
                    sessionCorrectStreak, todayReviews, sessionCardsSeen, currentResult,
                    timers, ticks, phase, rated, probe >>

--------------------------------------------------------------------------
(* The specification over all variants: any registered variant, a catalog of up to
   MaxChars items, up to MaxRatings ratings and MaxTicks clock advances. *)

\* The names given to the constructor and to switchAlgorithm.
VariantNames == AlgorithmTypes

\* The clock advances followed: the failed-card timeout of the time-based variants, a day.
TickSteps == {Ms(10 * 60 * 1000), DayLength}

Init == \E n \in 0..MaxChars : \E type \in VariantNames : Constructed(n, type)

Next ==
    \/ AppInit
    \/ NextCharacter
    \/ \E d \in Difficulties :
          todayReviews < MaxRatings /\ sessionCardsSeen <= MaxSeen /\ RecordDifficulty(d)
    \/ \E type \in VariantNames : todayReviews < MaxRatings /\ SwitchAlgorithm(type)
    \/ FireTimer
    \/ \E d \in TickSteps : ticks < MaxTicks /\ Tick(d)

Spec == Init /\ [][Next]_vars

--------------------------------------------------------------------------
(* Bucket Learning alone: a catalog of BucketChars items, an empty progress store,
   up to BucketMaxRatings ratings.  The variant reads no clock, so none advances;
   and its selection does not read the session state. *)

\* The ratings followed: one below the variant's "good" threshold and one above.
\* Neither is a failed rating, so no expiry timer is ever pending.
BucketRatings == {3, 5}

InitBucket == Constructed(BucketChars, "bucket")

NextBucket ==
    \/ AppInit
    \/ NextCharacter
    \/ \E d \in BucketRatings : todayReviews < BucketMaxRatings /\ RecordDifficulty(d)

SpecBucket == InitBucket /\ [][NextBucket]_vars

--------------------------------------------------------------------------
(* Focused Sets alone, as the app starts by default: a catalog of ScoreChars items,
   an empty progress store, up to ScoreMaxRatings ratings.  The variant reads no
   clock; its config has no failedCardTimeout, so a failed card's timer is due at
   once. *)

InitScore == Constructed(ScoreChars, "score")

NextScore ==
    \/ AppInit
    \/ NextCharacter
    \/ \E d \in Difficulties : todayReviews < ScoreMaxRatings /\ RecordDifficulty(d)
    \/ FireTimer

SpecScore == InitScore /\ [][NextScore]_vars

--------------------------------------------------------------------------
(* Focused Sets with a set kept from an earlier session: a catalog of SetsChars
   cards and up to SetsMaxRatings ratings.  The store is empty, or holds the record
   of card 0 as an earlier Focused Sets session left it: admitted to the set by
   init() at score 0, then rated 1 twice. *)

\* The record p after a rating d at time t under Focused Sets, short of graduation.
RatedInSet(p, d, t) ==
    [UpdatedRecord("score", p, d, t, None) EXCEPT !.score = UpdateScore(p.score, d)]

StoredSetRecord == RatedInSet(RatedInSet(NewSetRecord(0, 0), 1, 0), 1, 0)

InitSets ==
    \/ Constructed(SetsChars, "score")
    \/ /\ AppLoaded(SetsChars, "score",
                    [i \in 0..(SetsChars - 1) |->
                        IF i = 0 THEN StoredSetRecord ELSE NoRecord], 0)
       /\ probe = None

NextSets ==
    \/ AppInit
    \/ NextCharacter
    \/ \E d \in Difficulties : todayReviews < SetsMaxRatings /\ RecordDifficulty(d)
    \/ FireTimer

SpecSets == InitSets /\ [][NextSets]_vars

--------------------------------------------------------------------------
(* The failed-card timers: a variant with a failedCardTimeout of ten minutes, one of
   five minutes and one without (setTimeout then runs the callback with no delay), a
   catalog of ExpiryChars cards, up to ExpiryMaxRatings ratings and ExpiryMaxTicks
   clock advances from the user's side. The browser runs a callback that is due, and
   time passes: the handlers that are pending, the callbacks and the clock are
   weakly fair. *)

ExpiryVariants == {"improved", "mastery", "bucket"}

\* The ratings followed: failed ones and one that is not.
ExpiryRatings == {1, 2, 4}

\* The clock advances followed: half the shortest timeout.
ExpiryTickSteps == {Ms(150 * 1000)}

InitExpiry == \E type \in ExpiryVariants : Constructed(ExpiryChars, type)

NextExpiry ==
    \/ AppInit
    \/ NextCharacter
    \/ \E d \in ExpiryRatings : todayReviews < ExpiryMaxRatings /\ RecordDifficulty(d)
    \/ FireTimer
    \/ \E d \in ExpiryTickSteps : ticks < ExpiryMaxTicks /\ Tick(d)
    \/ AdvanceToTimer

SpecExpiry ==
    /\ InitExpiry
    /\ [][NextExpiry]_vars
    /\ WF_vars(AppInit)
    /\ WF_vars(NextCharacter)
    /\ WF_vars(FireTimer)
    /\ WF_vars(AdvanceToTimer)

--------------------------------------------------------------------------
(* Switches between the variants at any time of a session: a catalog of SwitchChars
   cards, an empty store, up to SwitchMaxRatings ratings and any number of calls of
   switchAlgorithm. *)

\* The ratings followed: a failed one and one that is not.
SwitchRatings == {1, 4}

InitSwitch == \E type \in VariantNames : Constructed(SwitchChars, type)

NextSwitch ==
    \/ AppInit
    \/ NextCharacter
    \/ \E d \in SwitchRatings : todayReviews < SwitchMaxRatings /\ RecordDifficulty(d)
    \/ \E type \in VariantNames : SwitchAlgorithm(type)
    \/ FireTimer

SpecSwitch == InitSwitch /\ [][NextSwitch]_vars

--------------------------------------------------------------------------
(* Improved SSR alone: a catalog of ImprovedChars items, up to ImprovedMaxRatings
   ratings and ImprovedMaxTicks clock advances.  The session starts with an empty
   store, or a day after an earlier Improved SSR session that rated the first cards
   of the catalog once and saved their records. *)

\* The clock advances followed: the shortest interval, the failed-card timeout, a day.
ImprovedTickSteps == {Ms(30 * 1000), Ms(10 * 60 * 1000), DayLength}

\* The ratings of the earlier session.
StoredRatings == {2, 5}

\* The store an earlier session leaves that rated the first k cards d at time 0.
StoredProgress(n, k, d) ==
    [i \in 0..(n - 1) |->
        IF i < k THEN FirstRecord("improved", PlainResult(n, i), d, 0, None)
        ELSE NoRecord]

InitImproved ==
    /\ \/ AppLoaded(ImprovedChars, "improved", StoredProgress(ImprovedChars, 0, 5), 0)
       \/ \E k \in 1..ImprovedChars, d \in StoredRatings :
             AppLoaded(ImprovedChars, "improved", StoredProgress(ImprovedChars, k, d),
                       DayLength)
    /\ probe = None

NextImproved ==
    \/ AppInit
    \/ NextCharacter
    \/ \E d \in Difficulties : todayReviews < ImprovedMaxRatings /\ RecordDifficulty(d)
    \/ FireTimer
    \/ \E d \in ImprovedTickSteps : ticks < ImprovedMaxTicks /\ Tick(d)

SpecImproved == InitImproved /\ [][NextImproved]_vars

--------------------------------------------------------------------------
(* Mastery Based alone: a catalog of up to MasteryChars cards of which the first k
   were rated in an earlier session, which left them target positions 2 and 3, and
   up to MasteryMaxRatings ratings, none after MasteryMaxRatings + 1 selections (an
   empty catalog has nothing to rate), with the debug panel's preview at any time.  A new instance counts its positions from 0.
   The session is shorter than the failed-card timeout. *)

\* The ratings followed: one for the next few cards, one for soon or later, a good one.
MasteryRatings == {1, 2, 4}

\* The store of the earlier session: card i was rated 1 at the position before its
\* target position.
StoredPositions(n, k) ==
    [i \in 0..(n - 1) |->
        IF i < k THEN FirstRecord("mastery", PlainResult(n, i), 1, 0, Some(2 + (i % 2)))
        ELSE NoRecord]

InitMastery ==
    /\ \E n \in 0..MasteryChars : \E k \in 0..n :
          AppLoaded(n, "mastery", StoredPositions(n, k), DayLength)
    /\ probe = None

NextMastery ==
    \/ AppInit
    \/ NextCharacter
    \/ \E d \in MasteryRatings :
          /\ todayReviews < MasteryMaxRatings
          /\ sessionCardsSeen <= MasteryMaxRatings
          /\ RecordDifficulty(d)
    \/ ShowUpcomingCards

SpecMastery == InitMastery /\ [][NextMastery]_vars

--------------------------------------------------------------------------
(* The new-card gate of Improved SSR: a catalog of GateChars cards of which the first
   k were first rated at midnight, an hour or a day before the session starts, and up
   to GateMaxRatings ratings. *)

\* The times the session starts at: the same day as the stored ratings, the next day.
GateStarts == {Ms(60 * 60 * 1000), DayLength}

InitGate ==
    /\ \E k \in 0..GateChars, d \in StoredRatings, t \in GateStarts :
          AppLoaded(GateChars, "improved", StoredProgress(GateChars, k, d), t)
    /\ probe = None

NextGate ==
    \/ AppInit
    \/ NextCharacter
    \/ \E d \in Difficulties : todayReviews < GateMaxRatings /\ RecordDifficulty(d)

SpecGate == InitGate /\ [][NextGate]_vars

--------------------------------------------------------------------------
(* Focused Sets reached through the algorithm selector: the app starts with another
   variant and an empty store, so init() fills no set, and the set is built card by
   card through addToSet selections once the learner has switched to 'score'.  The
   ratings followed are the first GraduateFirstRatings given before the switch and
   those given after it. *)

GraduateChars == 6

GraduateMaxRatings == 6

GraduateFirstRatings == 1

GraduateRatings == {3, 5}

InitGraduate == Constructed(GraduateChars, "anki")

NextGraduate ==
    \/ AppInit
    \/ NextCharacter
    \/ \E d \in GraduateRatings :
          /\ todayReviews < GraduateMaxRatings
          /\ algType = "score" \/ todayReviews < GraduateFirstRatings
          /\ RecordDifficulty(d)
    \/ SwitchAlgorithm("score")

SpecGraduate == InitGraduate /\ [][NextGraduate]_vars

--------------------------------------------------------------------------
(* Failed-card timers that outlive what scheduled them: one card, ratings that fail
   and ratings that do not, the clock, and switches between two variants that have a
   failedCardTimeout.  A timer is not cancelled by a later rating or by a switch. *)

WindowChars == 1

WindowMaxRatings == 3

WindowMaxTicks == 1

WindowVariants == {"improved", "mastery"}

WindowRatings == {1, 4}

InitWindow == \E type \in WindowVariants : Constructed(WindowChars, type)

NextWindow ==
    \/ AppInit
    \/ NextCharacter
    \/ \E d \in WindowRatings : todayReviews < WindowMaxRatings /\ RecordDifficulty(d)
    \/ \E type \in WindowVariants : SwitchAlgorithm(type)
    \/ FireTimer
    \/ \E d \in ExpiryTickSteps : ticks < WindowMaxTicks /\ Tick(d)
    \/ AdvanceToTimer

SpecWindow == InitWindow /\ [][NextWindow]_vars

--------------------------------------------------------------------------
(* Classic Anki with a stored progress map: the first k cards of a catalog of
   AnkiChars were first rated at time 0, the even ones d and the odd ones e, and the
   session starts an hour later or the next day.  The ratings followed do not fail,
   so no timer is scheduled. *)

AnkiChars == 11

AnkiMaxRatings == 2

AnkiStoredRatings == {2, 3, 5}

AnkiRatings == {3, 5}

StoredAnki(n, k, d, e) ==
    [i \in 0..(n - 1) |->
        IF i < k
        THEN FirstRecord("anki", PlainResult(n, i), IF i % 2 = 0 THEN d ELSE e, 0, None)
        ELSE NoRecord]

InitAnki ==
    /\ \E k \in 0..AnkiChars, d \in AnkiStoredRatings, e \in AnkiStoredRatings,
          t \in GateStarts :
          AppLoaded(AnkiChars, "anki", StoredAnki(AnkiChars, k, d, e), t)
    /\ probe = None

NextAnki ==
    \/ AppInit
    \/ NextCharacter
    \/ \E d \in AnkiRatings : todayReviews < AnkiMaxRatings /\ RecordDifficulty(d)

SpecAnki == InitAnki /\ [][NextAnki]_vars

--------------------------------------------------------------------------
(* Bucket with a stored progress map and the algorithm selector: the first m cards
   of the store are mastered, the next b are in the bucket, the others have no
   record.  switchAlgorithm() ends with nextCharacter(), so going to another variant
   and back asks the Bucket variant for a card again without a rating in between.
   Fairness: init() and the selection that follows a rating or a switch run in the
   same handler (weak fairness); Math.random() < masteredReviewChance is a fair
   draw, so a selection that can go either way infinitely often goes to the new
   card infinitely often (strong fairness on that outcome). *)

AcquireChars == 4

AcquireMaxRatings == 2

AcquireMastered == 2

AcquireVariants == {"bucket", "improved"}

StoredBucketRecord(n, i, good) ==
    LET first == FirstRecord("bucket", MkResult(n, i, TRUE, TRUE, FALSE, FALSE), 5, 0, None)
    IN  IF good THEN UpdatedRecord("bucket", UpdatedRecord("bucket", first, 5, 0, None),
                                   5, 0, None)
        ELSE first

StoredBucket(n, m, b) ==
    [i \in 0..(n - 1) |->
        IF i < m THEN StoredBucketRecord(n, i, TRUE)
        ELSE IF i < m + b THEN StoredBucketRecord(n, i, FALSE)
        ELSE NoRecord]

InitAcquire ==
    /\ \E m \in 0..AcquireMastered, b \in 0..1 :
          AppLoaded(AcquireChars, "bucket", StoredBucket(AcquireChars, m, b), 0)
    /\ probe = None

\* A Bucket selection below capacity whose draw did not go to the mastered pool.
DrawNewCard ==
    /\ NextCharacter
    /\ AlgorithmName(algorithm) = "Bucket Learning"
    /\ lastOp'.result.isNew

NextAcquire ==
    \/ AppInit
    \/ NextCharacter
    \/ \E d \in BucketRatings : todayReviews < AcquireMaxRatings /\ RecordDifficulty(d)
    \/ \E type \in AcquireVariants : SwitchAlgorithm(type)

SpecAcquire ==
    /\ InitAcquire
    /\ [][NextAcquire]_vars
    /\ WF_vars(AppInit)
    /\ WF_vars(NextCharacter)
    /\ SF_vars(DrawNewCard)

--------------------------------------------------------------------------
(* The interval functions on their own: Init draws a variant, a difficulty, two
   current intervals and a success rate; the one action applies
   calculateNextInterval to both intervals. *)

TimeBasedVariants == {"improved", "anki", "aggressive"}

\* Current intervals: none, the placeholder of the other variants, every initial
\* interval and every cap of the three variants, and values around and between them.
ProbeIntervals ==
    {0, 1, Ms(1000), Ms(3 * 24 * 60 * 60 * 1000), DefaultMaxInterval, AnkiCap}
      \cup {CalculateInitialInterval(alg, d) : alg \in TimeBasedVariants, d \in Difficulties}
      \cup {CalculateInitialInterval(alg, d) + 7 : alg \in TimeBasedVariants, d \in Difficulties}
      \cup {DefaultMaxInterval \div k : k \in 2..4}

\* Success rates successCount/reviewCount of a record, and two rates on either side
\* of the 0.9 threshold.
ProbeRates ==
    {r \in (0..MaxProbeReviews) \X (1..MaxProbeReviews) : r[1] <= r[2]}
        \cup {<< 9, 10 >>, << 19, 20 >>}

InitInterval ==
    /\ AppConstructed(0, "improved")
    /\ \E alg \in TimeBasedVariants, d \in Difficulties, rate \in ProbeRates :
       \E a \in ProbeIntervals, b \in ProbeIntervals :
          /\ a <= b
          /\ probe = Some([ alg |-> alg, difficulty |-> d, rate |-> rate, a |-> a, b |-> b,
                            applied |-> FALSE, ra |-> 0, rb |-> 0 ])

\* algorithm.calculateNextInterval(difficulty, currentInterval, successRate) of the
\* drawn variant, applied to both current intervals.
ApplyInterval ==
    /\ IsSome(probe)
    /\ ~Val(probe).applied
    /\ LET q == Val(probe)
       IN  probe' = Some([ q EXCEPT
                             !.applied = TRUE,
                             !.ra = CalculateNextInterval(q.alg, q.difficulty, q.a, q.rate),
                             !.rb = CalculateNextInterval(q.alg, q.difficulty, q.b, q.rate) ])
    /\ UNCHANGED << characters, algType, algorithm, userProgress, recentFailedCards,
                    sessionCorrectStreak, todayReviews, sessionCardsSeen, currentResult,
                    timers, now, ticks, phase, lastOp, rated >>

NextInterval == ApplyInterval

SpecInterval == InitInterval /\ [][NextInterval]_vars

--------------------------------------------------------------------------
(* The pure functions of the algorithms on their own: Init draws a function and its
   arguments, and one action per function applies it. *)

\* The names given to createAlgorithm: the registered ones, names that are not
\* registered, and names of properties every object inherits.
FactoryNames ==
    AlgorithmTypes \cup {"unknown", "", "Bucket", "constructor"} \cup InheritedNonConstructors

\* The probe of a function that has not been applied yet.
Call(fn, args) == Some([fn |-> fn, args |-> args, applied |-> FALSE, result |-> << >>])

\* The score lists given to weightedRandomSelect: negative, zero and positive scores.
SelectScoreLists ==
    UNION { [1..n -> (0 - SelectMaxScore)..SelectMaxScore] : n \in 0..SelectMaxLen }

\* The candidate list with these scores.
SelectItems(scores) == [k \in DOMAIN scores |-> [index |-> k - 1, score |-> scores[k]]]

\* The records given to getMasteryLevel: none, one that has not been reviewed, and
\* every count of successes in up to LevelMaxReviews reviews.
LevelRecords ==
    {NoRecord}
      \cup {[present |-> TRUE, reviewCount |-> 0, successCount |-> 0, successRate |-> << 0, 1 >>]}
      \cup UNION { {[present |-> TRUE, reviewCount |-> rc, successCount |-> sc,
                      successRate |-> << sc, rc >>] : sc \in 0..rc} :
                    rc \in 1..LevelMaxReviews }

InitFunctions ==
    /\ AppConstructed(0, "score")
    /\ \/ \E name \in FactoryNames : probe = Call("createAlgorithm", << name >>)
       \/ probe = Call("createAlgorithm", << >>)
       \/ \E alg \in AlgorithmTypes, d \in Difficulties :
             probe = Call("classify", << alg, d >>)
       \/ \E scores \in SelectScoreLists : probe = Call("weightedRandomSelect", scores)
       \/ \E d \in Difficulties, seen \in 0..MaxSeen :
             probe = Call("calculateTargetReviewPosition", << d, seen >>)
       \/ \E p \in LevelRecords : probe = Call("getMasteryLevel", << p >>)

\* The call of the probe has been made.
Applied(fn) == IsSome(probe) /\ Val(probe).fn = fn /\ Val(probe).applied

\* The step that applies fn and stores result.
Apply(fn, result) ==
    /\ IsSome(probe)
    /\ Val(probe).fn = fn
    /\ ~Val(probe).applied
    /\ probe' = Some([Val(probe) EXCEPT !.applied = TRUE, !.result = result])
    /\ UNCHANGED << characters, algType, algorithm, userProgress, recentFailedCards,
                    sessionCorrectStreak, todayReviews, sessionCardsSeen, currentResult,
                    timers, now, ticks, phase, lastOp, rated >>

ApplyCreateAlgorithm ==
    Apply("createAlgorithm",
          IF Val(probe).args = << >> THEN CreateAlgorithmDefault
          ELSE CreateAlgorithm(Val(probe).args[1]))

\* isCardFailed(difficulty) and isCardCorrect(difficulty) of a variant's instance.
ApplyClassify ==
    Apply("classify",
          [ failed |-> IsCardFailed(Val(probe).args[1], Val(probe).args[2]),
            correct |-> IsCardCorrect(Val(probe).args[1], Val(probe).args[2]) ])

\* weightedRandomSelect(items, item => item.score): the weights it computes (none
\* for fewer than two items), the items it can return and the chance of each.
ApplyWeightedRandomSelect ==
    LET items == SelectItems(Val(probe).args)
    IN  Apply("weightedRandomSelect",
              [ weights |-> IF Len(items) <= 1 THEN << >> ELSE SelectWeights(items),
                returns |-> WeightedRandomSelect(items),
                chance |-> [k \in DOMAIN items |-> SelectChance(items, k)] ])

\* calculateTargetReviewPosition(difficulty) of an instance whose sessionCardsSeen is
\* the second argument: the positions its random draw allows.
ApplyCalculateTargetReviewPosition ==
    Apply("calculateTargetReviewPosition",
          { CalculateTargetReviewPosition(Val(probe).args[1], Val(probe).args[2], rnd) :
               rnd \in RandomBelow(TargetRange(Val(probe).args[1])) })

ApplyGetMasteryLevel ==
    Apply("getMasteryLevel", GetMasteryLevel(Val(probe).args[1]))

NextFunctions ==
    \/ ApplyGetMasteryLevel
    \/ ApplyCreateAlgorithm
    \/ ApplyClassify
    \/ ApplyWeightedRandomSelect
    \/ ApplyCalculateTargetReviewPosition

SpecFunctions == InitFunctions /\ [][NextFunctions]_vars

--------------------------------------------------------------------------
(* Properties *)

\* C1: under Bucket Learning, started from an empty progress store, the active
\* bucket (the records that are inBucket and not mastered) never holds more than
\* bucketSize items.
C1_ActiveBucketWithinBucketSize ==
    Cardinality(GetActiveBucket(userProgress)) <= BucketSize

\* C1 happens: the bucket is full, an item has been mastered out of it and an item
\* that failed its mastery check is back in it, while the catalog still has a card
\* that was never shown.
C1_FullBucketAfterMasteryCheck ==
    /\ Cardinality(GetActiveBucket(userProgress)) = BucketSize
    /\ \E i \in GetActiveBucket(userProgress) : userProgress[i].wasUnmastered
    /\ \E i \in Indices : ~HasRecord(userProgress, i)
    /\ phase = "select"

C3_NoGraduateInSetAtSelection ==
    (phase = "select" /\ AlgorithmName(algorithm) = "Focused Sets")
        => \A i \in GetActiveSet(userProgress) :
              IsSome(userProgress[i].setEntryScore)
                  => userProgress[i].score >= Val(userProgress[i].setEntryScore)

\* The candidates backfillSet had besides the graduate of the last rating: the cards
\* other than the graduate that are out of the set now, and the card it admitted.
OtherCandidates ==
    {j \in Indices \ {lastOp.index} :
        \/ ~HasRecord(userProgress, j)
        \/ ~userProgress[j].inSet
        \/ lastOp.backfilled = Some(j)}

\* C4 as stated: under Focused Sets, when a rating makes its card graduate and a
\* candidate other than the graduate exists, backfillSet admits one card and that
\* card is not the graduate.
C4_BackfillAdmitsAnotherCard ==
    (/\ lastOp.op = "recordDifficulty"
     /\ lastOp.graduated
     /\ OtherCandidates # {})
        => /\ IsSome(lastOp.backfilled)
           /\ Val(lastOp.backfilled) # lastOp.index
           /\ ~userProgress[lastOp.index].inSet

\* C4's case happens: a rating has made a member of a full set graduate while the
\* catalog holds a card outside the set.
C4_GraduationWithOtherCandidate ==
    /\ lastOp.op = "recordDifficulty"
    /\ lastOp.graduated
    /\ OtherCandidates # {}
    /\ Cardinality(GetActiveSet(userProgress)) = SetSize

DueOrFailed ==
    {i \in Recorded(userProgress) :
        userProgress[i].nextReview <= now \/ i \in recentFailedCards}

\* C6: under Improved SSR with sessionCorrectStreak = 0, getNextCard does not return
\* a card without a record while a card is due or in recentFailedCards.
C6_NoNewCardWhileDueOrFailed ==
    (/\ lastOp.op = "nextCharacter"
     /\ algorithm = "improved"
     /\ sessionCorrectStreak = 0
     /\ DueOrFailed # {})
        => /\ ~lastOp.result.isNull
           /\ HasRecord(userProgress, lastOp.result.index)
           /\ lastOp.result.index \in DueOrFailed

\* C6 happens: getNextCard has been called with a zero streak while the catalog
\* held a new card, a card that was due only, and none failed.
C6_DueCardBeforeNewCard ==
    /\ lastOp.op = "nextCharacter"
    /\ algorithm = "improved"
    /\ sessionCorrectStreak = 0
    /\ \E i \in Indices : ~HasRecord(userProgress, i)
    /\ DueOrFailed # {}
    /\ recentFailedCards = {}
    /\ GetNewCardsSeenToday(userProgress, now) < MaxNewCardsPerDay("improved")

\* C7 as stated: calculateNextInterval of Improved SSR, Classic Anki and Aggressive
\* Learning returns at most the maxInterval of the variant's config.
C7_NextIntervalWithinMaxInterval ==
    (IsSome(probe) /\ Val(probe).applied)
        => /\ Val(probe).ra <= Val(MaxInterval(Val(probe).alg))
           /\ Val(probe).rb <= Val(MaxInterval(Val(probe).alg))

\* C7's case happens: Classic Anki's calculateNextInterval has been applied to a
\* current interval of maxInterval with a rating of 5.
C7_AnkiAtMaxInterval ==
    /\ IsSome(probe)
    /\ Val(probe).applied
    /\ Val(probe).alg = "anki"
    /\ Val(probe).difficulty = 5
    /\ Val(probe).b = Val(MaxInterval("anki"))

\* C8: Improved SSR's calculateNextInterval is non-decreasing in currentInterval for
\* a fixed difficulty in 2..5 and a fixed successRate.
C8_NextIntervalMonotone ==
    (/\ IsSome(probe)
     /\ Val(probe).applied
     /\ Val(probe).alg = "improved"
     /\ Val(probe).difficulty \in 2..5)
        => (Val(probe).a <= Val(probe).b => Val(probe).ra <= Val(probe).rb)

\* C8 happens: for a difficulty in 2..5 the function has been applied to two
\* different intervals, the larger of which is taken over the cap.
C8_LargerIntervalCapped ==
    /\ IsSome(probe)
    /\ Val(probe).applied
    /\ Val(probe).alg = "improved"
    /\ Val(probe).difficulty \in 2..5
    /\ Val(probe).a < Val(probe).b
    /\ Val(probe).b < DefaultMaxInterval
    /\ Val(probe).ra < Val(probe).rb
    /\ Val(probe).rb = DefaultMaxInterval

\* Improved SSR's calculateNextInterval returns 30 s for difficulty 1 and a value in
\* [30 s, 7 days] for every difficulty, over the probed intervals and rates.
ImprovedNextIntervalInRange ==
    \A d \in Difficulties, ci \in ProbeIntervals, rate \in ProbeRates :
        LET r == ImprovedCalculateNextInterval(d, ci, rate)
        IN  /\ d = 1 => r = Ms(30 * 1000)
            /\ Ms(30 * 1000) <= r
            /\ r <= Ms(7 * 24 * 60 * 60 * 1000)

\* C9: Improved SSR's calculateNextInterval returns 30 s for difficulty 1 and a value
\* in [30 s, 7 days] for every difficulty; after every recorded rating the record's
\* nextReview - lastSeen is its interval and lies in that range, and is 30 s after a
\* rating of 1.
C9_IntervalBetweenMinAndMax ==
    /\ ImprovedNextIntervalInRange
    /\ \A i \in Recorded(userProgress) :
          /\ userProgress[i].nextReview - userProgress[i].lastSeen = userProgress[i].interval
          /\ Ms(30 * 1000) <= userProgress[i].interval
          /\ userProgress[i].interval <= Ms(7 * 24 * 60 * 60 * 1000)
          /\ userProgress[i].lastDifficulty = Some(1)
                => userProgress[i].interval = Ms(30 * 1000)

\* C9 happens: a card whose interval was a day or more has been rated 1.
C9_ResetAfterLongInterval ==
    /\ lastOp.op = "recordDifficulty"
    /\ lastOp.recorded
    /\ lastOp.difficulty = 1
    /\ lastOp.before # << >>
    /\ lastOp.before[1].present
    /\ lastOp.before[1].interval >= DayLength

\* C10: with an empty catalog, getNextCard of every variant returns without throwing
\* a result that carries no card (null, or a result whose char is undefined); the
\* app then shows no card and records nothing.
C10_EmptyCatalogSelectsNothing ==
    characters = 0
        => /\ lastOp.op = "nextCharacter"
                => /\ ~lastOp.result.threw
                   /\ lastOp.result.isNull \/ ~lastOp.result.hasChar
           /\ ~currentResult.hasChar
           /\ ~lastOp.recorded \/ lastOp.op = "switchAlgorithm"
           /\ Recorded(userProgress) = {}
           /\ rated = {}
           /\ todayReviews = 0

\* C10 happens: with an empty catalog, a rating handler has run on what Focused
\* Sets' getNextCard returned, and recorded nothing.
C10_EmptyCatalogRated ==
    /\ characters = 0
    /\ algorithm = "score"
    /\ lastOp.op = "recordDifficulty"
    /\ ~lastOp.recorded
    /\ phase = "select"

\* C11 as stated: createAlgorithm never fails; for a registered name it returns an
\* instance of that variant, and for any other name an instance of the variant that
\* createAlgorithm() returns.
C11_CreateAlgorithmNeverFails ==
    Applied("createAlgorithm")
        => LET q == Val(probe)
           IN  /\ q.result # "TypeError"
               /\ q.result \in AlgorithmTypes
               /\ (q.args # << >> /\ q.args[1] \in AlgorithmTypes) => q.result = q.args[1]
               /\ (q.args # << >> /\ q.args[1] \notin AlgorithmTypes)
                     => q.result = CreateAlgorithmDefault

\* C11's case happens: createAlgorithm has been called with a name that is not
\* registered and has returned the default variant.
C11_UnknownNameGivesDefault ==
    /\ Applied("createAlgorithm")
    /\ Val(probe).args = << "unknown" >>
    /\ Val(probe).result = "bucket"

\* C12: for every difficulty 1..5, isCardFailed holds iff d <= 2 in every variant;
\* isCardCorrect holds iff d >= 3, so that exactly one of the two holds, in every
\* variant but Bucket Learning, where isCardCorrect holds iff d >= 4.
C12_ClassificationThresholds ==
    Applied("classify")
        => LET alg == Val(probe).args[1]
               d == Val(probe).args[2]
               r == Val(probe).result
           IN  /\ r.failed <=> d <= 2
               /\ alg # "bucket" => /\ r.correct <=> d >= 3
                                    /\ r.failed # r.correct
               /\ alg = "bucket" => (r.correct <=> d >= 4)

\* C12 happens: Bucket Learning has classified a rating of 3, which is neither failed
\* nor correct.
C12_BucketThreeNeitherFailedNorCorrect ==
    /\ Applied("classify")
    /\ Val(probe).args = << "bucket", 3 >>
    /\ ~Val(probe).result.failed
    /\ ~Val(probe).result.correct

\* C13: Improved SSR with a catalog of 3 (or more) and no records: getNextCard returns index
\* 0; a first rating of 1 on it leaves a record with interval 30000 ms and
\* nextReview = now + 30000 ms; the getNextCard that follows, before nextReview,
\* returns index 0 again and neither of the cards 1 and 2.
C13_FirstCardFailedAndRepeated ==
    (characters >= 3 /\ algorithm = "improved") =>
    /\ (lastOp.op = "nextCharacter" /\ Recorded(userProgress) = {})
          => /\ lastOp.result.hasChar
             /\ lastOp.result.index = 0
    /\ (/\ lastOp.op = "recordDifficulty"
        /\ lastOp.recorded
        /\ lastOp.difficulty = 1
        /\ lastOp.before = << NoRecord >>)
          => /\ userProgress[lastOp.index].interval = Ms(30000)
             /\ userProgress[lastOp.index].nextReview = now + Ms(30000)
    /\ (/\ lastOp.op = "nextCharacter"
        /\ Recorded(userProgress) = {0}
        /\ userProgress[0].history = << 1 >>
        /\ now < userProgress[0].nextReview)
          => /\ lastOp.result.hasChar
             /\ lastOp.result.index = 0

\* C13 happens: from an empty store card 0 has been rated 1 and getNextCard has been
\* called again at once, with no streak and cards 1 and 2 still new.
C13_SecondSelectionAfterFailure ==
    /\ characters = 3
    /\ algorithm = "improved"
    /\ lastOp.op = "nextCharacter"
    /\ Recorded(userProgress) = {0}
    /\ userProgress[0].history = << 1 >>
    /\ userProgress[0].interval = Ms(30000)
    /\ now < userProgress[0].nextReview
    /\ sessionCorrectStreak = 0
    /\ lastOp.result.index = 0
    /\ todayReviews = 1

\* C14: Bucket Learning from an empty store: while every rating so far was a 5, up
\* to five of them, the cards rated are the lowest catalog indices, one rating each,
\* all in the bucket with consecutiveGood = 1, and the card shown next is the next
\* new one; the draw for a mastered review changes nothing, no card being mastered.
C14_FiveCardsEnterBucket ==
    (/\ todayReviews <= 5
     /\ \A i \in Recorded(userProgress) :
           \A k \in DOMAIN userProgress[i].history : userProgress[i].history[k] = 5)
        => /\ Recorded(userProgress) = 0..(todayReviews - 1)
           /\ \A i \in Recorded(userProgress) :
                 /\ userProgress[i].history = << 5 >>
                 /\ userProgress[i].inBucket
                 /\ userProgress[i].consecutiveGood = 1
           /\ GetActiveBucket(userProgress) = Recorded(userProgress)
           /\ (phase = "shown" /\ todayReviews < 5)
                 => currentResult.index = todayReviews /\ currentResult.addToBucket

\* C14 happens: five ratings of 5 have been recorded and the bucket is full.
C14_FiveRatingsOfFive ==
    /\ todayReviews = 5
    /\ Recorded(userProgress) = 0..4
    /\ \A i \in 0..4 : userProgress[i].history = << 5 >>
    /\ Cardinality(GetActiveBucket(userProgress)) = BucketSize

\* C15: under Focused Sets a rating d changes the card's score (0 for a card without
\* a record) by exactly +5, +3, +1, -1, -3 for d = 1..5, with no clamp; a card that was in the
\* set graduates at that rating if and only if its score is then below its
\* setEntryScore (entry score 0 and score 10 rated 5 four times: 7, 4, 1, -2, and
\* graduation at the fourth rating only).
C15_ScoreChangeAndGraduation ==
    (/\ lastOp.op = "recordDifficulty"
     /\ lastOp.recorded
     /\ algorithm = "score")
        => LET b == lastOp.before[1]
               a == userProgress[lastOp.index]
               before == IF b.present THEN b.score ELSE 0
               change == CASE lastOp.difficulty = 1 -> 5
                           [] lastOp.difficulty = 2 -> 3
                           [] lastOp.difficulty = 3 -> 1
                           [] lastOp.difficulty = 4 -> -1
                           [] lastOp.difficulty = 5 -> -3
           IN  /\ a.score = before + change
               /\ (b.present /\ b.inSet /\ IsSome(b.setEntryScore))
                     => (lastOp.graduated <=> a.score < Val(b.setEntryScore))
               /\ (/\ b.present
                   /\ b.score = 10
                   /\ b.setEntryScore = Some(0)
                   /\ lastOp.difficulty = 5)
                     => a.score = 7 /\ ~lastOp.graduated

\* C15 happens: the card that entered the set at 0 and stood at 10 has been rated 5
\* four times and has graduated at the fourth rating, with score -2.
C15_GraduatedAtFourthRating ==
    /\ lastOp.op = "recordDifficulty"
    /\ lastOp.graduated
    /\ lastOp.before[1].score = 1
    /\ lastOp.before[1].setEntryScore = Some(0)
    /\ userProgress[0].history = << 1, 1, 5, 5, 5, 5 >>
    /\ userProgress[0].score = -2

\* C16 as stated: switchAlgorithm to a variant other than the current one leaves
\* recentFailedCards empty, sessionCorrectStreak 0 and todayReviews 0;
\* switchAlgorithm to the current variant changes nothing.
C16_SwitchResetsSessionState ==
    [][ lastOp'.op = "switchAlgorithm"
          => IF lastOp'.recorded
             THEN /\ recentFailedCards' = {}
                  /\ sessionCorrectStreak' = 0
                  /\ todayReviews' = 0
             ELSE UNCHANGED << characters, algType, algorithm, userProgress,
                               recentFailedCards, sessionCorrectStreak, todayReviews,
                               sessionCardsSeen, currentResult, timers, now, phase >> ]_vars

\* C16's case happens: the variant has been switched after a rating was recorded.
C16_SwitchedAfterRating ==
    /\ lastOp.op = "switchAlgorithm"
    /\ lastOp.recorded
    /\ rated # {}
    /\ recentFailedCards = {}
    /\ sessionCorrectStreak = 0

\* The failedCardTimeout a rating is recorded with (no delay where the config has none).
ActiveTimerDelay ==
    IF IsSome(FailedCardTimeout(algorithm)) THEN Val(FailedCardTimeout(algorithm)) ELSE 0

\* C17: an index is in recentFailedCards only while its most recent rating is a failed
\* one not older than failedCardTimeout, with the removal that rating scheduled still
\* pending; every failed rating inserts its index and schedules exactly one removal;
\* the timer callback removes its index and changes nothing else; every index in the
\* set is eventually out of it.
C17_FailedCardsExpire ==
    /\ [](\A i \in recentFailedCards :
            /\ HasRecord(userProgress, i)
            /\ userProgress[i].lastDifficulty \in {Some(1), Some(2)}
            /\ now - userProgress[i].lastSeen <= ActiveTimerDelay
            /\ \E k \in DOMAIN timers :
                  /\ timers[k].index = i
                  /\ timers[k].due = userProgress[i].lastSeen + ActiveTimerDelay)
    /\ [][ /\ (lastOp'.op = "recordDifficulty" /\ lastOp'.recorded /\ lastOp'.difficulty <= 2)
              => /\ lastOp'.index \in recentFailedCards'
                 /\ timers' = Append(timers, [index |-> lastOp'.index,
                                              due |-> now + ActiveTimerDelay])
           /\ (lastOp'.op = "recordDifficulty" /\ ~(lastOp'.recorded /\ lastOp'.difficulty <= 2))
              => timers' = timers
           /\ lastOp'.op = "timer"
              => /\ recentFailedCards' = recentFailedCards \ {lastOp'.index}
                 /\ Len(timers') = Len(timers) - 1
                 /\ UNCHANGED << characters, algType, algorithm, userProgress,
                                 sessionCorrectStreak, todayReviews, sessionCardsSeen,
                                 currentResult, now, ticks, phase, rated >> ]_vars
    /\ \A i \in 0..(ExpiryChars - 1) :
          (i \in recentFailedCards) ~> (i \notin recentFailedCards)

\* C17's case happens: a card failed twice is out of the set again after the callback
\* of the first failure ran while the callback of the second is still pending.
C17_RemovedByEarlierTimer ==
    /\ lastOp.op = "timer"
    /\ lastOp.index \notin recentFailedCards
    /\ HasRecord(userProgress, lastOp.index)
    /\ userProgress[lastOp.index].reviewCount >= 2
    /\ \E k \in DOMAIN timers : timers[k].index = lastOp.index /\ timers[k].due > now

\* C18: within a session sessionCorrectStreak starts at 0, every recorded rating of
\* difficulty <= 2 sets it to 0, every other recorded rating adds exactly 1 to it, and
\* nothing else changes it: it counts the ratings since the most recent failed one.
C18_StreakCountsNonFailedRatings ==
    /\ sessionCorrectStreak = 0
    /\ [][ IF lastOp'.op = "recordDifficulty" /\ lastOp'.recorded
           THEN sessionCorrectStreak' =
                    IF lastOp'.difficulty <= 2 THEN 0 ELSE sessionCorrectStreak + 1
           ELSE sessionCorrectStreak' = sessionCorrectStreak ]_vars

\* C18's case happens: three ratings were recorded, a failed one and then two that
\* are not failed.
C18_TwoAfterAFailure ==
    /\ lastOp.op = "recordDifficulty"
    /\ lastOp.recorded
    /\ todayReviews = 3
    /\ sessionCorrectStreak = 2

\* C19: the success rate of every record is a quotient with a positive denominator,
\* and for every record with reviewCount > 0 it is successCount / reviewCount, with
\* 0 <= successCount <= reviewCount, reviewCount the number of the card's ratings and
\* successCount the number of them the active variant classifies as correct
\* (difficulty >= 4 for Bucket Learning, difficulty >= 3 otherwise).
C19_SuccessRateIsSuccessesOverReviews ==
    \A i \in Recorded(userProgress) :
        LET p == userProgress[i]
            threshold == IF algorithm = "bucket" THEN 4 ELSE 3
        IN  /\ p.successRate[2] > 0
            /\ p.reviewCount > 0 =>
                  /\ p.successRate = << p.successCount, p.reviewCount >>
                  /\ 0 <= p.successCount
                  /\ p.successCount <= p.reviewCount
                  /\ p.reviewCount = Len(p.history)
                  /\ p.successCount =
                         Cardinality({k \in DOMAIN p.history : p.history[k] >= threshold})

\* C19's case happens: a card of Bucket Learning rated three times, 3 once (not
\* correct for this variant) and 5 twice.
C19_TwoOfThree ==
    /\ algorithm = "bucket"
    /\ \E i \in Recorded(userProgress) :
          /\ userProgress[i].reviewCount = 3
          /\ userProgress[i].successRate = << 2, 3 >>
          /\ \E k \in DOMAIN userProgress[i].history : userProgress[i].history[k] = 3

\* C20: when all the candidates given to weightedRandomSelect have the same score,
\* they all get the same weight, each of the n candidates can be returned and each is
\* returned with probability 1/n.
C20_EqualScoresUniform ==
    Applied("weightedRandomSelect") =>
        LET scores == Val(probe).args
            n == Len(scores)
            res == Val(probe).result
        IN  (n >= 1 /\ \A k \in 1..n : scores[k] = scores[1]) =>
                /\ \A k \in DOMAIN res.weights : res.weights[k] = res.weights[1]
                /\ res.returns = {Some(SelectItems(scores)[k]) : k \in 1..n}
                /\ \A k \in 1..n : res.chance[k][1] * n = res.chance[k][2]

\* C20's case happens: three candidates with the same negative score.
C20_ThreeEqualNegativeScores ==
    /\ Applied("weightedRandomSelect")
    /\ Len(Val(probe).args) = 3
    /\ \A k \in 1..3 : Val(probe).args[k] = 0 - 2
    /\ Val(probe).result.weights = << 10, 10, 10 >>

\* C21 as stated: under Improved SSR getNextCard does not return a card that is in
\* recentFailedCards with its nextReview still ahead while some card is due
\* (nextReview <= now).
C21_FailedNotDueBehindDue ==
    (/\ lastOp.op = "nextCharacter"
     /\ algorithm = "improved"
     /\ lastOp.result.hasChar
     /\ lastOp.result.index \in recentFailedCards
     /\ HasRecord(userProgress, lastOp.result.index)
     /\ userProgress[lastOp.result.index].nextReview > now)
        => ~\E j \in Indices : /\ HasRecord(userProgress, j)
                               /\ userProgress[j].nextReview <= now

\* The categories of C22 and C23 in the state a getNextCard call of Improved SSR saw.
FailedRecorded == {i \in Recorded(userProgress) : i \in recentFailedCards}

DueNotFailed ==
    {i \in Recorded(userProgress) : i \notin recentFailedCards /\ userProgress[i].nextReview <= now}

NewCards == {i \in Indices : ~HasRecord(userProgress, i)}

\* The three gates of a new card: few active failures, a streak, the daily limit.
NewGateOpen ==
    /\ Cardinality(recentFailedCards) < 3
    /\ sessionCorrectStreak >= 2
    /\ Cardinality({i \in Recorded(userProgress) :
                       userProgress[i].firstSeen >= (now \div DayLength) * DayLength}) < 5

TargetOffsets == {pos - Val(probe).args[2] : pos \in Val(probe).result}

\* The band of a rating as the specification gives it, both ends included.
SpecBand(d) ==
    CASE d = 1 -> 1..3
      [] d = 2 -> 4..8
      [] d = 3 -> 9..20
      [] d = 4 -> 21..50
      [] d = 5 -> 51..100

\* C24 as stated: the offsets calculateTargetReviewPosition can give a rating d are
\* exactly the integers of the band of d, both endpoints included.
C24_OffsetsAreExactlyTheBand ==
    Applied("calculateTargetReviewPosition")
        => TargetOffsets = SpecBand(Val(probe).args[1])

\* C24's case happens: the call for a rating of 1 has been made, and its offsets are
\* within the band.
C24_OffsetsWithinBand ==
    /\ Applied("calculateTargetReviewPosition")
    /\ Val(probe).args[1] = 1
    /\ TargetOffsets # {}
    /\ TargetOffsets \subseteq SpecBand(1)

\* The categories of C25 in the state a getNextCard call of Mastery Based saw:
\* sessionCardsSeen is the current position.
CardsUntilDue(i) == Val(userProgress[i].targetReviewPosition) - sessionCardsSeen

DueNow == {i \in Recorded(userProgress) : CardsUntilDue(i) <= 0}

DueSoon == {i \in Recorded(userProgress) : CardsUntilDue(i) > 0 /\ CardsUntilDue(i) <= 5}

DueLater == {i \in Recorded(userProgress) : CardsUntilDue(i) > 5}

C27_MasteryLevels ==
    Applied("getMasteryLevel") =>
        LET p == Val(probe).args[1]
            level == Val(probe).result
            rc == IF p.present THEN p.reviewCount ELSE 0
            sc == IF p.present THEN p.successCount ELSE 0
            mastered == (rc >= 5 /\ 10 * sc >= 8 * rc) \/ (rc >= 3 /\ 10 * sc >= 9 * rc)
            familiar == ~mastered /\ rc >= 3 /\ 10 * sc >= 6 * rc
            learning == ~mastered /\ ~familiar /\ rc > 0
        IN  /\ level \in {"mastered", "familiar", "learning", "new"}
            /\ level = "mastered" <=> mastered
            /\ level = "familiar" <=> familiar
            /\ level = "learning" <=> learning
            /\ level = "new" <=> (~mastered /\ ~familiar /\ ~learning)
            /\ ~p.present => level = "new"

\* C27's case happens: a record with 4 successes in 5 reviews, which is mastered by
\* the first test only.
C27_FourOfFive ==
    /\ Applied("getMasteryLevel")
    /\ Val(probe).args[1].present
    /\ Val(probe).args[1].reviewCount = 5
    /\ Val(probe).args[1].successCount = 4
    /\ Val(probe).result = "mastered"

\* The number of the most recent ratings of a history that are 4 or more, without a
\* break.
RECURSIVE TrailingGood(_)
TrailingGood(h) ==
    IF Len(h) = 0 \/ h[Len(h)] < 4 THEN 0
    ELSE 1 + TrailingGood(SubSeq(h, 1, Len(h) - 1))

\* C28: under Bucket Learning consecutiveGood is the number of the most recent
\* ratings >= 4 in a row; a card is mastered exactly when its 3 most recent ratings
\* are all >= 4; a mastered card has its masteredAt and is out of the active bucket.
C28_MasteredIffThreeGoodInARow ==
    \A i \in Recorded(userProgress) :
        LET p == userProgress[i]
        IN  /\ p.consecutiveGood = TrailingGood(p.history)
            /\ IsCardMastered(p) <=> TrailingGood(p.history) >= 3
            /\ IsCardMastered(p) <=> i \in GetMasteredCards(userProgress)
            /\ IsCardMastered(p) <=> IsSome(p.masteredAt)
            /\ IsCardMastered(p) => ~p.inBucket /\ i \notin GetActiveBucket(userProgress)
            /\ ~IsCardMastered(p) => p.inBucket

\* C28's case happens: a card was mastered by three good ratings in a row and is
\* not mastered after a fourth rating of 3, while another card is mastered.
C28_MasteredAndLost ==
    \E i \in Recorded(userProgress) :
        /\ userProgress[i].history = << 5, 5, 5, 3 >>
        /\ ~IsCardMastered(userProgress[i])
        /\ userProgress[i].inBucket

\* C29: under Bucket Learning a rating below 4 leaves consecutiveGood at 0; a card
\* that was mastered before the rating is in the active bucket after it, with
\* wasUnmastered set and masteredAt null; a card that was not mastered keeps its
\* bucket membership.
C29_RatingBelowFourUnmasters ==
    (/\ lastOp.op = "recordDifficulty"
     /\ lastOp.recorded
     /\ algorithm = "bucket"
     /\ lastOp.difficulty < 4)
        => LET p == userProgress[lastOp.index]
               b == lastOp.before[1]
           IN  /\ p.consecutiveGood = 0
               /\ IsCardMastered(b)
                     => /\ lastOp.index \in GetActiveBucket(userProgress)
                        /\ p.inBucket
                        /\ p.wasUnmastered
                        /\ p.masteredAt = None
               /\ (b.present /\ ~IsCardMastered(b))
                     => /\ p.inBucket = b.inBucket
                        /\ p.wasUnmastered = b.wasUnmastered
                        /\ (lastOp.index \in GetActiveBucket(userProgress))
                             <=> (b.inBucket /\ ~IsCardMastered(b))

\* C29's case happens: a mastered card has been rated 3 at its mastery check.
C29_MasteryCheckFailed ==
    /\ lastOp.op = "recordDifficulty"
    /\ lastOp.recorded
    /\ algorithm = "bucket"
    /\ lastOp.difficulty = 3
    /\ IsCardMastered(lastOp.before[1])
    /\ lastOp.index \in GetActiveBucket(userProgress)

\* C30: under Bucket Learning, when the active bucket holds bucketSize (5) cards,
\* getNextCard returns a member of the active bucket: a card with a record, not
\* mastered, with none of the flags of a new card or a mastery check.
C30_FullBucketServesItsMembers ==
    (/\ lastOp.op = "nextCharacter"
     /\ algorithm = "bucket"
     /\ Cardinality(GetActiveBucket(userProgress)) >= 5)
        => /\ lastOp.result.hasChar
           /\ lastOp.result.index \in GetActiveBucket(userProgress)
           /\ HasRecord(userProgress, lastOp.result.index)
           /\ ~IsCardMastered(userProgress[lastOp.result.index])
           /\ ~lastOp.result.isNew
           /\ ~lastOp.result.addToBucket
           /\ ~lastOp.result.isMasteryCheck

\* C30's case happens: getNextCard has been called with a full bucket while the
\* catalog held a card never shown and a mastered card.
C30_FullBucketWithNewAndMastered ==
    /\ lastOp.op = "nextCharacter"
    /\ algorithm = "bucket"
    /\ Cardinality(GetActiveBucket(userProgress)) = 5
    /\ \E i \in Indices : ~HasRecord(userProgress, i)
    /\ GetMasteredCards(userProgress) # {}

--------------------------------------------------------------------------
(* C31 *)

\* The bucket is below capacity and a card has no record.
AcquisitionOpen ==
    /\ Cardinality(GetActiveBucket(userProgress)) < BucketSize
    /\ NewCards # {}

\* The last selection returned the lowest-index card without a record, flagged for
\* the bucket.
LowestNewSelected ==
    /\ AlgorithmName(algorithm) = "Bucket Learning"
    /\ lastOp.op = "nextCharacter"
    /\ NewCards # {}
    /\ lastOp.result.hasChar
    /\ lastOp.result.index = LowestIndex(NewCards)
    /\ lastOp.result.isNew
    /\ lastOp.result.addToBucket

\* C31: Bucket: with free capacity, a never-seen card and an empty mastered pool the
\* selection returns the lowest-index never-seen card flagged for the bucket at once;
\* with mastered cards in the pool, as long as cards keep being asked of the Bucket
\* variant, free capacity and a never-seen card lead to that card being selected
\* (or to the capacity or the never-seen cards being used up).
C31_NewCardEventuallyAcquired ==
    /\ [](lastOp.op = "nextCharacter" /\ AlgorithmName(algorithm) = "Bucket Learning"
            /\ AcquisitionOpen
            /\ GetMasteredCards(userProgress) = {} => LowestNewSelected)
    /\ ([]<><<NextCharacter /\ AlgorithmName(algorithm) = "Bucket Learning">>_vars
          => (AcquisitionOpen ~> (LowestNewSelected \/ ~AcquisitionOpen)))

\* With mastered cards in the pool and room in the bucket, the selection went to the
\* lowest-index card without a record, after a rating of this session.
C31_NewCardDespiteMasteredPool ==
    /\ AcquisitionOpen
    /\ LowestNewSelected
    /\ GetMasteredCards(userProgress) # {}
    /\ todayReviews > 0

--------------------------------------------------------------------------
(* C32 *)

\* C32 as stated: under Focused Sets a rating of 1, 2 or 3 of a card that is in the
\* active set leaves the card in the active set.
C32_PoorRatingKeepsCardInSet ==
    (/\ lastOp.op = "recordDifficulty"
     /\ lastOp.recorded
     /\ AlgorithmName(algorithm) = "Focused Sets"
     /\ lastOp.difficulty \in {1, 2, 3}
     /\ lastOp.before[1].present
     /\ lastOp.before[1].inSet)
        => lastOp.index \in GetActiveSet(userProgress)

\* A rating of 1, 2 or 3 of a set member whose score was at or above its entry score
\* has left the card in the set.
C32_PoorRatingOfMemberAtEntryScore ==
    /\ lastOp.op = "recordDifficulty"
    /\ lastOp.recorded
    /\ AlgorithmName(algorithm) = "Focused Sets"
    /\ lastOp.difficulty = 3
    /\ lastOp.before[1].present
    /\ lastOp.before[1].inSet
    /\ IsSome(lastOp.before[1].setEntryScore)
    /\ lastOp.before[1].score >= Val(lastOp.before[1].setEntryScore)
    /\ lastOp.index \in GetActiveSet(userProgress)

--------------------------------------------------------------------------
(* C33 *)

\* C33 as stated: for two or more candidates weightedRandomSelect weighs each one
\* max(score + offset, 0.1) with offset = max(0, -min(scores) + 1) (weights in
\* tenths), whatever the sign of the minimum score; every weight is strictly
\* positive and every candidate can be returned.
C33_WeightsFromStatedOffset ==
    Applied("weightedRandomSelect") =>
        LET scores == Val(probe).args
            n == Len(scores)
            res == Val(probe).result
            minScore == CHOOSE m \in {scores[k] : k \in 1..n} :
                            \A k \in 1..n : m <= scores[k]
            offset == Max2(0, (0 - minScore) + 1)
        IN  n >= 2 =>
                /\ \A k \in 1..n : res.weights[k] = Max2((scores[k] + offset) * 10, 1)
                /\ \A k \in 1..n : res.weights[k] > 0
                /\ res.returns = {Some(SelectItems(scores)[k]) : k \in 1..n}

\* A candidate of score 0 next to one of score 2: the minimum is not negative, the
\* first weighs 0.1 and can still be returned.
C33_ZeroScoreStillSelectable ==
    /\ Applied("weightedRandomSelect")
    /\ Val(probe).args = << 0, 2 >>
    /\ Val(probe).result.weights = << 1, 20 >>
    /\ Some(SelectItems(Val(probe).args)[1]) \in Val(probe).result.returns

--------------------------------------------------------------------------
(* C34 *)

\* The catalog indices that are not members of the active set.
NonMembers == Indices \ GetActiveSet(userProgress)

\* C34: a Focused Sets selection made while the set has fewer than setSize members
\* and the catalog has a non-member returns a non-member flagged addToSet, with isNew
\* exactly when the card has no record; otherwise, with a non-empty set, it returns a
\* member with no addToSet flag.
C34_NonMemberWhileSetHasRoom ==
    (/\ lastOp.op = "nextCharacter"
     /\ AlgorithmName(algorithm) = "Focused Sets")
        => LET r == lastOp.result
               setCards == GetActiveSet(userProgress)
           IN  IF Cardinality(setCards) < SetSize /\ NonMembers # {}
               THEN /\ r.hasChar
                    /\ r.index \in NonMembers
                    /\ r.addToSet
                    /\ r.isNew <=> ~HasRecord(userProgress, r.index)
               ELSE setCards # {}
                       => /\ r.hasChar
                          /\ r.index \in setCards
                          /\ ~r.addToSet

\* A set with a member and room left: the selection returned, flagged addToSet and
\* not isNew, a card that has a record and is out of the set.
C34_RecordedNonMemberSelected ==
    /\ lastOp.op = "nextCharacter"
    /\ AlgorithmName(algorithm) = "Focused Sets"
    /\ GetActiveSet(userProgress) # {}
    /\ Cardinality(GetActiveSet(userProgress)) < SetSize
    /\ lastOp.result.addToSet
    /\ ~lastOp.result.isNew
    /\ HasRecord(userProgress, lastOp.result.index)
    /\ lastOp.result.index \in NonMembers

--------------------------------------------------------------------------
(* C35 *)

\* C35: under Focused Sets the records that are inSet never number more than setSize,
\* and a set that has setSize members still has setSize members after any step, a
\* rating with its graduation and backfill included.
C35_SetBoundedAndKeptFull ==
    /\ [](Cardinality(GetActiveSet(userProgress)) <= SetSize)
    /\ [][Cardinality(GetActiveSet(userProgress)) = SetSize
            => Cardinality(GetActiveSet(userProgress')) = SetSize]_vars

\* A member of a full set has graduated, backfillSet has admitted another card and
\* the set has setSize members.
C35_FullSetAfterGraduation ==
    /\ lastOp.op = "recordDifficulty"
    /\ AlgorithmName(algorithm) = "Focused Sets"
    /\ lastOp.graduated
    /\ IsSome(lastOp.backfilled)
    /\ Val(lastOp.backfilled) # lastOp.index
    /\ ~userProgress[lastOp.index].inSet
    /\ Cardinality(GetActiveSet(userProgress)) = SetSize

--------------------------------------------------------------------------
(* C36 *)

\* The rating a step records for card i, if it records one.
RatingRecordedFor(i) ==
    /\ lastOp'.op = "recordDifficulty"
    /\ lastOp'.recorded
    /\ lastOp'.index = i

\* C36: every record's reviewCount is the length of its history and its
\* lastDifficulty the last element of it; a step that records a rating d of a card
\* leaves the card's history as it was with d appended (d alone for a first record)
\* and its firstSeen as it was; every other step, and a rating of another card,
\* leaves a record's history and firstSeen unchanged.
C36_HistoryIsTheRatingsInOrder ==
    /\ [](\A i \in Recorded(userProgress) :
            /\ userProgress[i].reviewCount = Len(userProgress[i].history)
            /\ userProgress[i].history # << >>
                  => userProgress[i].lastDifficulty
                        = Some(userProgress[i].history[Len(userProgress[i].history)]))
    /\ [][\A i \in Indices :
            IF RatingRecordedFor(i)
            THEN /\ HasRecord(userProgress', i)
                 /\ userProgress'[i].history
                       = Append(IF HasRecord(userProgress, i)
                                THEN userProgress[i].history ELSE << >>,
                                lastOp'.difficulty)
                 /\ HasRecord(userProgress, i)
                       => userProgress'[i].firstSeen = userProgress[i].firstSeen
            ELSE HasRecord(userProgress, i)
                    => /\ HasRecord(userProgress', i)
                       /\ userProgress'[i].history = userProgress[i].history
                       /\ userProgress'[i].firstSeen = userProgress[i].firstSeen]_vars

\* A record first seen in an earlier session has been rated twice on a later day: the
\* three ratings are its history in order and firstSeen is still the first day.
C36_ThreeRatingsInOrder ==
    /\ lastOp.op = "recordDifficulty"
    /\ lastOp.recorded
    /\ userProgress[lastOp.index].history = << 2, 4, 1 >>
    /\ userProgress[lastOp.index].reviewCount = 3
    /\ userProgress[lastOp.index].lastDifficulty = Some(1)
    /\ userProgress[lastOp.index].firstSeen = 0
    /\ userProgress[lastOp.index].lastSeen > 0

--------------------------------------------------------------------------
(* C37 *)

\* C37 as stated: a timer callback that runs for an index whose latest failure is
\* less than failedCardTimeout old (the index is in recentFailedCards, so its last
\* rating was a failed one under the active variant, at lastSeen) leaves the index in
\* recentFailedCards.
C37_EarlierTimerKeepsLaterWindow ==
    [][(/\ lastOp'.op = "timer"
        /\ lastOp'.index \in recentFailedCards
        /\ HasRecord(userProgress, lastOp'.index)
        /\ now' < userProgress[lastOp'.index].lastSeen + ActiveTimerDelay)
          => lastOp'.index \in recentFailedCards']_vars

\* The card failed, was rated 4 and failed again later; the timer of the first failure
\* has run and the card is out of recentFailedCards before the timeout of the second
\* failure is over.
C37_WindowEndedEarly ==
    /\ lastOp.op = "timer"
    /\ HasRecord(userProgress, lastOp.index)
    /\ userProgress[lastOp.index].history = << 1, 4, 1 >>
    /\ now < userProgress[lastOp.index].lastSeen + ActiveTimerDelay
    /\ lastOp.index \notin recentFailedCards
    /\ \E k \in DOMAIN timers : timers[k].index = lastOp.index /\ timers[k].due > now

--------------------------------------------------------------------------
(* C38 *)

\* C38: under Bucket Learning, started from an empty progress map, the active bucket
\* and the mastered pool split the cards that have a record: each of them is in one
\* of the two and in one only, and a card without a record is in neither.
C38_BucketAndMasteredPartitionRecords ==
    LET bucketCards == GetActiveBucket(userProgress)
        masteredCards == GetMasteredCards(userProgress)
    IN  /\ bucketCards \cap masteredCards = {}
        /\ bucketCards \cup masteredCards = Recorded(userProgress)
        /\ \A i \in Indices : ~HasRecord(userProgress, i) =>
                                  i \notin bucketCards \cup masteredCards

\* A third good rating in a row has just moved a card from the bucket to the mastered
\* pool, a card rated twice or more is in the bucket, and a card has no record yet.
C38_MovedToMasteredPool ==
    /\ lastOp.op = "recordDifficulty"
    /\ lastOp.recorded
    /\ lastOp.before[1].present
    /\ lastOp.before[1].inBucket
    /\ lastOp.index \in GetMasteredCards(userProgress)
    /\ \E j \in GetActiveBucket(userProgress) : userProgress[j].reviewCount >= 2
    /\ NewCards # {}

--------------------------------------------------------------------------
(* C39 *)

\* C39 as stated: Aggressive Learning selects as Improved SSR does with its own
\* settings (minCorrectStreakForNew 1, maxFailedCardsBeforeNew 5, maxNewCardsPerDay
\* 15): with a streak of 1 or more, no failed card, no due card and a card without a
\* record, getNextCard returns the lowest-index card without a record.
C39_AggressiveOpensGateAtStreakOne ==
    (/\ lastOp.op = "nextCharacter"
     /\ algorithm = "aggressive"
     /\ sessionCorrectStreak >= MinCorrectStreakForNew("aggressive")
     /\ Cardinality(recentFailedCards) < MaxFailedCardsBeforeNew("aggressive")
     /\ GetNewCardsSeenToday(userProgress, now) < MaxNewCardsPerDay("aggressive")
     /\ FailedRecorded = {}
     /\ DueNotFailed = {}
     /\ NewCards # {})
        => /\ lastOp.result.hasChar
           /\ lastOp.result.index = LowestIndex(NewCards)

\* Aggressive Learning with a streak of 1 and a new card waiting: the card rated a
\* moment ago has come back.
C39_RecordedCardAtStreakOne ==
    /\ lastOp.op = "nextCharacter"
    /\ algorithm = "aggressive"
    /\ sessionCorrectStreak = 1
    /\ recentFailedCards = {}
    /\ DueNotFailed = {}
    /\ NewCards # {}
    /\ lastOp.result.hasChar
    /\ HasRecord(userProgress, lastOp.result.index)

--------------------------------------------------------------------------
(* C40 *)

\* The cards Classic Anki's getNextCard saw as due.
AnkiDue == {i \in Recorded(userProgress) : now >= userProgress[i].nextReview}

\* C40 as stated: Classic Anki returns a due card than which none is more overdue
\* whenever a card is due; without a due card it returns a card that has no record
\* only while fewer than maxNewCardsPerDay records were first seen on the current
\* day.
C40_AnkiDueFirstThenNewWithinLimit ==
    (/\ lastOp.op = "nextCharacter"
     /\ algorithm = "anki"
     /\ lastOp.result.hasChar)
        => LET r == lastOp.result.index
           IN  IF AnkiDue # {}
               THEN /\ r \in AnkiDue
                    /\ \A j \in AnkiDue :
                          userProgress[r].nextReview <= userProgress[j].nextReview
               ELSE ~HasRecord(userProgress, r)
                       => GetNewCardsSeenToday(userProgress, now)
                             < MaxNewCardsPerDay("anki")

\* Two cards are due, one more overdue than the other, and the more overdue one is
\* the card returned.
C40_MostOverdueReturned ==
    /\ lastOp.op = "nextCharacter"
    /\ algorithm = "anki"
    /\ lastOp.result.hasChar
    /\ lastOp.result.index \in AnkiDue
    /\ \E j \in AnkiDue :
          userProgress[j].nextReview > userProgress[lastOp.result.index].nextReview
    /\ \A j \in AnkiDue :
          userProgress[lastOp.result.index].nextReview <= userProgress[j].nextReview

====
